---- MODULE Spec2Model ----
(***************************************************************************)
(* A model of mixminion's directory-backed queues                          *)
(* (lib/mixminion/server/ServerQueue.py): the Queue core, whose entries    *)
(* are files named <prefix>_<handle> in one directory, and the             *)
(* DeliveryQueue built on it, which keeps per-message delivery metadata    *)
(* and a retry schedule.                                                   *)
(*                                                                         *)
(* The directory is the function `files` from file names <<prefix,handle>> *)
(* to contents.  Every method of the classes is an operator on a record    *)
(* holding the object's fields and the directory; an action applies one    *)
(* public operation to the current state.                                  *)
(***************************************************************************)
EXTENDS Integers, Sequences, FiniteSets, TLC

VARIABLES
    files,          \* the queue directory: file name -> contents
    n_entries,      \* Queue.n_entries (cached count, <0 = not counted)
    renames,        \* log of the (s1,s2) pairs __changeState has renamed
    retrySchedule,  \* DeliveryQueue.retrySchedule
    sendable,       \* DeliveryQueue.sendable (a list of handles)
    pending,        \* DeliveryQueue.pending (handle -> time sent)
    deliveryState,  \* DeliveryQueue.deliveryState (handle -> _DeliveryState)
    nextAttempt,    \* DeliveryQueue.nextAttempt (handle -> time or None)
    out,            \* what the last operation handed to _deliverMessages,
                    \* and whether it raised an exception
    drawn,          \* number of handles the PRNG has produced so far
    opened,         \* handles writers got from openNewMessage and have
                    \* neither finished nor aborted
    other,          \* a second queue, the destination of moveMessage
    mix,            \* the parameters of a CottrellMixPool
    input,          \* the text or the descriptors given to the functions
                    \* of ServerInfo.py
    lifetime,       \* one process lifetime of a DeliveryQueue: its clock
                    \* and how often each handle went to _deliverMessages
    scrub,          \* a cleanQueue call under way: where it is, the names
                    \* it has listed and collected, and which inp_ files
                    \* are younger than INPUT_TIMEOUT
    lock            \* the queue's RLock: the thread that holds it, and
                    \* where each thread is

vars == <<files, n_entries, renames, retrySchedule, sendable, pending,
          deliveryState, nextAttempt, out, drawn, opened, other, mix,
          input, lifetime, scrub, lock>>

----------------------------------------------------------------------------
(* Bounds *)

MaxTime == 2
\* longest retry schedule and largest interval given to getNextAttempt
MaxLen == 2
MaxInterval == 2

\* the handles the PRNG produces, in the order it produces them: distinct
\* 8-character strings
HandleNames == <<"a", "b">>
Handles == {HandleNames[i] : i \in DOMAIN HandleNames}

\* Python's None, for the time-valued fields and arguments (times are >= 0).
None == -1

Times == 0..MaxTime
\* values a caller passes as `now`
NowArgs == {None} \cup Times
\* what time.time() returns: the wall clock is not behind any time a
\* caller passes, and is never 0
WallTimes == {MaxTime}

\* the objects a caller queues ("tup4" would stand for a 4-tuple, the
\* obsolete 0.0.3 format _loadState looks for)
Objects == {"obj"}

\* the byte strings a caller queues with queueMessage, as the sequence of
\* blocks the file object writes them in
Contents == {<<"m1", "m2">>}

\* retrySchedule = None, before the constructor has set a schedule
NoSchedule == <<None>>

\* retry schedules offered to setRetrySchedule / the constructor
Schedules == {<<0>>, <<1, 1>>}

----------------------------------------------------------------------------
(* Helpers on Python dicts and lists *)

Drop(d, k) == [x \in DOMAIN d \ {k} |-> d[x]]

Put(d, k, v) == [x \in DOMAIN d \cup {k} |-> IF x = k THEN v ELSE d[x]]

EmptyDict == [x \in {} |-> None]

Range(s) == {s[i] : i \in DOMAIN s}

\* list.index(x): position of the first occurrence, 0 if there is none
Index(s, x) ==
    IF \E i \in DOMAIN s : s[i] = x
    THEN CHOOSE i \in DOMAIN s : s[i] = x /\ \A j \in 1..(i-1) : s[j] # x
    ELSE 0

\* del s[i]
DelAt(s, i) == [j \in 1..(Len(s)-1) |-> IF j < i THEN s[j] ELSE s[j+1]]

\* the orders in which os.listdir may return the members of a set
Orders(S) ==
    {s \in [1..Cardinality(S) -> S] : \A i, j \in DOMAIN s : i # j => s[i] # s[j]}

----------------------------------------------------------------------------
(* The directory *)

Exists(f, prefix, h) == <<prefix, h>> \in DOMAIN f

\* handles h for which a file <prefix>_h exists
WithPrefix(f, prefix) == {n[2] : n \in {m \in DOMAIN f : m[1] = prefix}}

\* contents of a tombstone: nothing reads an rmv_ file again
Tomb == <<>>

\* os.rename(a, b) when a exists: b is replaced if it is there
Rename(f, a, b) ==
    [n \in (DOMAIN f \ {a}) \cup {b} |->
        IF n = b THEN (IF b[1] \in {"rmv", "rmv_meta"} THEN Tomb ELSE f[a])
        ELSE f[n]]

\* all the files in D renamed to tombstones named <prefix>_<h>
Tombstoned(f, D, prefix) ==
    [n \in (DOMAIN f \ D) \cup {<<prefix, m[2]>> : m \in D} |->
        IF n[1] = prefix /\ \E m \in D : m[2] = n[2] THEN Tomb ELSE f[n]]

\* os.unlink / secureDelete of the names in D
Unlink(f, D) == [n \in DOMAIN f \ D |-> f[n]]

\* writing or replacing one file
WriteFile(f, n, c) == [m \in DOMAIN f \cup {n} |-> IF m = n THEN c ELSE f[m]]

\* cPickle.dump(object): the file holds a pickle of the object
Pickle(o) == <<"pickle", o>>

\* the bytes handed to queueMessage, written as they are
Raw(b) == <<"raw", b>>

\* pickling a _DeliveryState: __getstate__
getstate(ds) == <<"V0", ds.queuedTime, ds.lastAttempt>>

\* a reader of the state file that forgets the last attempt
setstate_forgetful(t) == [queuedTime |-> t[2], lastAttempt |-> None]

\* unpickling a _DeliveryState: __setstate__
setstate(t) == [queuedTime |-> t[2], lastAttempt |-> t[3]]

----------------------------------------------------------------------------
(* Queue *)

\* the object's fields and the directory it owns, as one record
Self == [files |-> files, n_entries |-> n_entries, renames |-> renames,
         retrySchedule |-> retrySchedule, sendable |-> sendable,
         pending |-> pending, deliveryState |-> deliveryState,
         nextAttempt |-> nextAttempt]

\* Queue.getAllMessages, as a set
getAllMessages(q) == WithPrefix(q.files, "msg")

\* Queue.count(recount=1): rescan the directory
recount(q) == [q EXCEPT !.n_entries = Cardinality(getAllMessages(q))]

\* what Queue.count() returns
count(q) ==
    IF q.n_entries >= 0 THEN q.n_entries ELSE Cardinality(getAllMessages(q))

\* Queue.__changeState(handle, s1, s2); oserr: os.rename raises OSError
\* although the source file is there
changeState(q, h, s1, s2, oserr) ==
    IF ~Exists(q.files, s1, h) \/ oserr
    THEN recount(q)
    ELSE LET f2 == Rename(q.files, <<s1, h>>, <<s2, h>>)
             n2 == IF q.n_entries < 0 THEN q.n_entries
                   ELSE IF s1 = "msg" /\ s2 # "msg" THEN q.n_entries - 1
                   ELSE IF s1 # "msg" /\ s2 = "msg" THEN q.n_entries + 1
                   ELSE q.n_entries
         IN [q EXCEPT !.files = f2, !.n_entries = n2,
                      !.renames = @ \cup {<<s1, s2>>}]

\* a removeMessage that puts the message back among the incomplete ones
Queue_removeMessage_toInp(q, h, oserr) == changeState(q, h, "msg", "inp", oserr)

\* Queue.removeMessage
Queue_removeMessage(q, h, oserr) == changeState(q, h, "msg", "rmv", oserr)

\* Queue.cleanQueue.  aged: the inp_ files os.stat finds older than
\* INPUT_TIMEOUT; the list handed to secureDelete names them inp_<h>.
cleanQueue(q, aged) ==
    LET rmv == {n \in DOMAIN q.files : n[1] \in {"rmv", "rmv_meta"}}
        old == {n \in DOMAIN q.files : n[1] = "inp" /\ n[2] \in aged}
        f1 == [n \in (DOMAIN q.files \ old) \cup {<<"rmv", m[2]>> : m \in old} |->
                 IF n[1] = "rmv" /\ <<"inp", n[2]>> \in old THEN Tomb
                 ELSE q.files[n]]
    IN [q EXCEPT !.files = Unlink(f1, rmv \cup old),
                 !.renames = IF old = {} THEN @ ELSE @ \cup {<<"inp", "rmv">>}]

----------------------------------------------------------------------------
(* _DeliveryState *)

\* _DeliveryState.__init__(queuedTime, lastAttempt=None); tt: time.time()
newDeliveryState(queuedTime, tt) ==
    [queuedTime |-> IF queuedTime = None THEN tt ELSE queuedTime,
     lastAttempt |-> None]

\* the same loop accepting a scheduled time equal to the last attempt
RECURSIVE scanSchedule_ge(_, _, _, _)
scanSchedule_ge(attempt, schedule, i, last) ==
    IF i > Len(schedule) THEN None
    ELSE LET a == attempt + schedule[i]
         IN IF a >= last THEN a ELSE scanSchedule_ge(a, schedule, i + 1, last)

\* the loop of getNextAttempt over retrySchedule[i..]
RECURSIVE scanSchedule(_, _, _, _)
scanSchedule(attempt, schedule, i, last) ==
    IF i > Len(schedule) THEN None
    ELSE LET a == attempt + schedule[i]
         IN IF a > last THEN a ELSE scanSchedule(a, schedule, i + 1, last)

\* _DeliveryState.getNextAttempt(retrySchedule, now); tt: time.time()
getNextAttempt(ds, schedule, now, tt) ==
    LET now1 == IF now = None \/ now = 0 THEN tt ELSE now   \* `if not now`
    IN IF ds.lastAttempt = None THEN now1
       ELSE scanSchedule(ds.queuedTime, schedule, 1, ds.lastAttempt)

\* a setLastAttempt that records nothing
setLastAttempt_forgets(ds, when) == ds

\* _DeliveryState.setLastAttempt
setLastAttempt(ds, when) == [ds EXCEPT !.lastAttempt = when]

----------------------------------------------------------------------------
(* DeliveryQueue *)

\* the assertions of DeliveryQueue._repOk: the sorted list of msg_ handles
\* equals sorted(pending.keys() + sendable), and the key lists of
\* deliveryState and nextAttempt
repOk(q) ==
    LET all == getAllMessages(q)
    IN /\ Len(q.sendable) + Cardinality(DOMAIN q.pending) = Cardinality(all)
       /\ Range(q.sendable) \cup DOMAIN q.pending = all
       /\ DOMAIN q.deliveryState = all
       /\ DOMAIN q.nextAttempt = all

\* DeliveryQueue._writeState(h)
writeState(q, h) ==
    IF h \in DOMAIN q.deliveryState
    THEN [q EXCEPT !.files =
             WriteFile(@, <<"meta", h>>, getstate(q.deliveryState[h]))]
    ELSE IF Exists(q.files, "meta", h)
         THEN [q EXCEPT !.files = Rename(@, <<"meta", h>>, <<"rmv_meta", h>>)]
         ELSE q

\* DeliveryQueue._rebuildNextAttempt(now)
rebuildNextAttempt(q, now, tt) ==
    LET rs == IF q.retrySchedule = NoSchedule THEN <<0>> ELSE q.retrySchedule
    IN [q EXCEPT !.nextAttempt =
           [h \in DOMAIN q.deliveryState |->
               getNextAttempt(q.deliveryState[h], rs, now, tt)]]

\* DeliveryQueue.setRetrySchedule(schedule, now)
setRetrySchedule(q, schedule, now, tt) ==
    rebuildNextAttempt([q EXCEPT !.retrySchedule = schedule], now, tt)

\* DeliveryQueue.removeMessage(handle), were nextAttempt left alone
removeMessage_keepNextAttempt(q, h) ==
    LET q1 == Queue_removeMessage(q, h, FALSE)
        i == Index(q1.sendable, h)
        q2 == [q1 EXCEPT !.pending = Drop(@, h),
                         !.deliveryState = Drop(@, h),
                         !.sendable = IF i = 0 THEN @ ELSE DelAt(@, i)]
    IN writeState(q2, h)

\* DeliveryQueue.removeMessage(handle)
removeMessage(q, h) ==
    LET q1 == Queue_removeMessage(q, h, FALSE)
        i == Index(q1.sendable, h)
        q2 == [q1 EXCEPT !.pending = Drop(@, h),
                         !.deliveryState = Drop(@, h),
                         !.nextAttempt = Drop(@, h),
                         !.sendable = IF i = 0 THEN @ ELSE DelAt(@, i)]
    IN writeState(q2, h)

\* the loop of removeExpiredMessages: `for h in self.sendable` steps an
\* index through the list that removeMessage shortens
RECURSIVE removeExpiredLoop(_, _)
removeExpiredLoop(q, i) ==
    IF i > Len(q.sendable) THEN q
    ELSE LET h == q.sendable[i]
         IN IF q.nextAttempt[h] = None
            THEN removeExpiredLoop(removeMessage(q, h), i + 1)
            ELSE removeExpiredLoop(q, i + 1)

\* DeliveryQueue.removeExpiredMessages
removeExpiredMessages(q) == removeExpiredLoop(q, 1)

\* the loop of sendReadyMessages over the old sendable list; r.q is the
\* queue and r.messages the handles collected for _deliverMessages
RECURSIVE sendReadyLoop(_, _, _, _)
sendReadyLoop(r, handles, i, now) ==
    IF i > Len(handles) THEN r
    ELSE LET h == handles[i]
             next == r.q.nextAttempt[h]
         IN IF h \in DOMAIN r.q.pending \/ h \notin DOMAIN r.q.nextAttempt
            THEN [r EXCEPT !.raised = TRUE]      \* AssertionError, KeyError
            ELSE IF next = None
            THEN sendReadyLoop([r EXCEPT !.q = removeMessage(r.q, h)],
                               handles, i + 1, now)
            ELSE IF next <= now
            THEN IF ~Exists(r.q.files, "msg", h)
                 THEN [r EXCEPT !.raised = TRUE]  \* getObject: IOError
                 ELSE sendReadyLoop(
                        [r EXCEPT !.q.pending = Put(@, h, now),
                                  !.messages = Append(@, h)],
                        handles, i + 1, now)
            ELSE sendReadyLoop(
                    [r EXCEPT !.q.sendable = Append(@, h)],
                    handles, i + 1, now)

\* a sendReadyMessages that starts by forgetting what is pending
sendReadyMessages_forgetful(q, now, tt) ==
    LET now1 == IF now = None THEN tt ELSE now
    IN sendReadyLoop([q |-> [q EXCEPT !.sendable = <<>>, !.pending = EmptyDict],
                      messages |-> <<>>, raised |-> FALSE],
                     q.sendable, 1, now1)

\* a sendReadyMessages that takes the wall clock whatever `now` is
sendReadyMessages_wallClock(q, now, tt) ==
    sendReadyLoop([q |-> [q EXCEPT !.sendable = <<>>], messages |-> <<>>,
                   raised |-> FALSE],
                  q.sendable, 1, tt)

\* DeliveryQueue.sendReadyMessages(now), up to the call of _deliverMessages
sendReadyMessages(q, now, tt) ==
    LET now1 == IF now = None THEN tt ELSE now
    IN sendReadyLoop([q |-> [q EXCEPT !.sendable = <<>>], messages |-> <<>>,
                      raised |-> FALSE],
                     q.sendable, 1, now1)

\* the handles sendReadyMessages(now) passes to _deliverMessages: those it
\* collected, if it got past its assertions and _repOk
handedOut(q, now, tt) ==
    LET r == sendReadyMessages(q, now, tt)
    IN IF r.raised \/ ~repOk(r.q) THEN <<>> ELSE r.messages

\* DeliveryQueue.queueDeliveryMessage(msg, now), the new file being inp_<h>
queueDeliveryMessage(q, h, msg, now, tt) ==
    LET q1 == [q EXCEPT !.files = WriteFile(@, <<"inp", h>>, Pickle(msg))]
        q2 == changeState(q1, h, "inp", "msg", FALSE)
        ds == newDeliveryState(now, tt)
        q3 == [q2 EXCEPT !.sendable = Append(@, h),
                         !.deliveryState = Put(@, h, ds),
                         !.nextAttempt =
                             Put(@, h, getNextAttempt(ds, q.retrySchedule, now, tt))]
    IN writeState(q3, h)

\* DeliveryQueue.deliveryFailed(handle, retriable, now), were the time of
\* the report taken for the time of the attempt
deliveryFailed_reportTime(q, h, retriable, now, tt) ==
    IF h \notin DOMAIN q.pending THEN q
    ELSE LET lastAttempt == tt
             ds0 == IF h \in DOMAIN q.deliveryState THEN q.deliveryState[h]
                    ELSE newDeliveryState(now, tt)
             ds == setLastAttempt(ds0, lastAttempt)
             next == getNextAttempt(ds, q.retrySchedule, now, tt)
             q1 == [q EXCEPT !.deliveryState = Put(@, h, ds)]
         IN IF retriable /\ next # None
            THEN LET q2 == [q1 EXCEPT !.nextAttempt = Put(@, h, next),
                                      !.sendable = Append(@, h),
                                      !.pending = Drop(@, h)]
                 IN IF repOk(q2) THEN writeState(q2, h) ELSE q2
            ELSE removeMessage(IF retriable THEN q1 ELSE q, h)

\* DeliveryQueue.deliveryFailed(handle, retriable, now), were the handle
\* left in pending when it goes back to sendable
deliveryFailed_keepPending(q, h, retriable, now, tt) ==
    IF h \notin DOMAIN q.pending THEN q
    ELSE LET lastAttempt == q.pending[h]
             ds0 == IF h \in DOMAIN q.deliveryState THEN q.deliveryState[h]
                    ELSE newDeliveryState(now, tt)
             ds == setLastAttempt(ds0, lastAttempt)
             next == getNextAttempt(ds, q.retrySchedule, now, tt)
             q1 == [q EXCEPT !.deliveryState = Put(@, h, ds)]
         IN IF retriable /\ next # None
            THEN LET q2 == [q1 EXCEPT !.nextAttempt = Put(@, h, next),
                                      !.sendable = Append(@, h)]
                 IN IF repOk(q2) THEN writeState(q2, h) ELSE q2
            ELSE removeMessage(IF retriable THEN q1 ELSE q, h)

\* DeliveryQueue.deliveryFailed(handle, retriable, now)
deliveryFailed(q, h, retriable, now, tt) ==
    IF h \notin DOMAIN q.pending THEN q
    ELSE LET lastAttempt == q.pending[h]
             ds0 == IF h \in DOMAIN q.deliveryState THEN q.deliveryState[h]
                    ELSE newDeliveryState(now, tt)
             ds == setLastAttempt(ds0, lastAttempt)
             next == getNextAttempt(ds, q.retrySchedule, now, tt)
             q1 == [q EXCEPT !.deliveryState = Put(@, h, ds)]
         IN IF retriable /\ next # None
            THEN LET q2 == [q1 EXCEPT !.nextAttempt = Put(@, h, next),
                                      !.sendable = Append(@, h),
                                      !.pending = Drop(@, h)]
                 IN IF repOk(q2) THEN writeState(q2, h) ELSE q2
            ELSE removeMessage(IF retriable THEN q1 ELSE q, h)

\* Queue.removeAll(secureDeleteFn).  failing: the files whose os.rename
\* raises OSError; __changeState then recounts, and removeAll goes on
Queue_removeAll(q, failing) ==
    LET live == {n \in DOMAIN q.files : n[1] \in {"inp", "msg"}} \ failing
        f1 == [n \in (DOMAIN q.files \ live) \cup {<<"rmv", m[2]>> : m \in live} |->
                 IF n[1] = "rmv" /\ (<<"inp", n[2]>> \in live \/ <<"msg", n[2]>> \in live)
                 THEN Tomb ELSE q.files[n]]
        q1 == [q EXCEPT !.files = f1, !.n_entries = 0,
                        !.renames = @ \cup {<<m[1], "rmv">> : m \in live}]
    IN cleanQueue(q1, {})

\* a removeAll that leaves the dict of pending deliveries as it is
removeAll_keepPending(q) ==
    LET metas == {n \in DOMAIN q.files : n[1] = "meta"}
        q1 == Queue_removeAll([q EXCEPT !.files = Tombstoned(@, metas, "rmv_meta")], {})
        q2 == [q1 EXCEPT !.deliveryState = EmptyDict,
                         !.nextAttempt = EmptyDict, !.sendable = <<>>]
    IN cleanQueue(q2, {})

\* DeliveryQueue.removeAll(secureDeleteFn)
removeAll(q) ==
    LET metas == {n \in DOMAIN q.files : n[1] = "meta"}
        f1 == [n \in (DOMAIN q.files \ metas) \cup {<<"rmv_meta", m[2]>> : m \in metas} |->
                 IF n[1] = "rmv_meta" /\ <<"meta", n[2]>> \in metas THEN Tomb
                 ELSE q.files[n]]
        q1 == Queue_removeAll([q EXCEPT !.files = f1], {})
        q2 == [q1 EXCEPT !.deliveryState = EmptyDict, !.pending = EmptyDict,
                         !.nextAttempt = EmptyDict, !.sendable = <<>>]
    IN cleanQueue(q2, {})

\* the first loop of _loadState for the handles in hs: a message without
\* metadata gets a new _DeliveryState, or is removed when it is a 4-tuple
RECURSIVE loadStateLoop(_, _, _)
loadStateLoop(q, hs, tt) ==
    IF hs = {} THEN q
    ELSE LET h == CHOOSE x \in hs : TRUE
             q1 == IF Exists(q.files, "meta", h)
                   THEN [q EXCEPT !.deliveryState =
                            Put(@, h, setstate(q.files[<<"meta", h>>]))]
                   ELSE IF q.files[<<"msg", h>>] = Pickle("tup4")
                   THEN removeMessage(q, h)
                   ELSE writeState(
                          [q EXCEPT !.deliveryState =
                              Put(@, h, newDeliveryState(None, tt))], h)
         IN loadStateLoop(q1, hs \ {h}, tt)

\* DeliveryQueue._loadState: the second loop unlinks the meta_ files
loadState(q, tt) ==
    LET q1 == loadStateLoop([q EXCEPT !.deliveryState = EmptyDict],
                            getAllMessages(q), tt)
    IN [q1 EXCEPT !.files =
           Unlink(@, {n \in DOMAIN q1.files : n[1] = "meta"})]

\* DeliveryQueue._rescan(); order: the order of os.listdir
rescan(q, order, tt) ==
    LET q1 == [q EXCEPT !.pending = EmptyDict, !.nextAttempt = EmptyDict,
                        !.sendable = order]
    IN rebuildNextAttempt(loadState(q1, tt), None, tt)

\* DeliveryQueue.__init__(location, retrySchedule, now) over the directory f
construct(f, log, schedule, now, tt, order) ==
    LET q0 == [files |-> f, n_entries |-> -1, renames |-> log,
               retrySchedule |-> NoSchedule, sendable |-> <<>>,
               pending |-> EmptyDict, deliveryState |-> EmptyDict,
               nextAttempt |-> EmptyDict]
        q1 == cleanQueue(q0, {})
    IN setRetrySchedule(rescan(q1, order, tt), schedule, now, tt)

----------------------------------------------------------------------------
(* The DeliveryQueue as a state machine: one action per public operation *)

\* what openNewFile(dir, "inp_") may return: it creates inp_<h> with O_EXCL
openNewFile(f) == {h \in Handles : ~Exists(f, "inp", h)}

\* the outcome of an operation: the batch it handed to _deliverMessages,
\* whether it raised an exception, and the value it returned (<<>> is
\* None, <<v>> the value v, a longer sequence a list)
NoOut == [batch |-> <<>>, raised |-> FALSE, ret |-> <<>>]

\* no second queue, no mix pool, no text
NoQueue == <<>>
NoMix == <<>>
NoInput == <<>>
\* no clock and no count of deliveries
NoLifetime == <<>>
\* no cleanQueue under way
NoScrub == <<>>
\* no threads
NoLock == <<>>

Init ==
    /\ files = EmptyDict
    /\ n_entries = -1
    /\ renames = {}
    /\ retrySchedule \in Schedules
    /\ sendable = <<>>
    /\ pending = EmptyDict
    /\ deliveryState = EmptyDict
    /\ nextAttempt = EmptyDict
    /\ out = NoOut
    /\ drawn = 0
    /\ opened = {}
    /\ other = NoQueue
    /\ mix = NoMix
    /\ input = NoInput
    /\ lifetime = NoLifetime
    /\ scrub = NoScrub
    /\ lock = NoLock

\* the object becomes q; the operation called _deliverMessages(batch)
\* (batch = <<>>: it did not call it), and raised an exception or not
Becomes(q, batch, raised) ==
    /\ files' = q.files
    /\ n_entries' = q.n_entries
    /\ renames' = q.renames
    /\ retrySchedule' = q.retrySchedule
    /\ sendable' = q.sendable
    /\ pending' = q.pending
    /\ deliveryState' = q.deliveryState
    /\ nextAttempt' = q.nextAttempt
    /\ out' = [batch |-> batch, raised |-> raised, ret |-> <<>>]

\* the same for an operation of the Queue core, which returns ret
Returns(q, ret, raised) ==
    /\ files' = q.files
    /\ n_entries' = q.n_entries
    /\ renames' = q.renames
    /\ retrySchedule' = q.retrySchedule
    /\ sendable' = q.sendable
    /\ pending' = q.pending
    /\ deliveryState' = q.deliveryState
    /\ nextAttempt' = q.nextAttempt
    /\ out' = [batch |-> <<>>, raised |-> raised, ret |-> ret]

\* queueDeliveryMessage(msg, now); the PRNG produces its next handle
QueueDeliveryMessage(msg, now, tt) ==
    /\ drawn < Len(HandleNames)
    /\ HandleNames[drawn + 1] \in openNewFile(files)
    /\ drawn' = drawn + 1
    /\ UNCHANGED <<opened, other, mix, input, lifetime, scrub, lock>>
    /\ LET q == queueDeliveryMessage(Self, HandleNames[drawn + 1], msg, now, tt)
       IN Becomes(q, <<>>, ~repOk(q))

\* sendReadyMessages(now): _deliverMessages is called after _repOk, when
\* there are messages
SendReadyMessages(now, tt) ==
    /\ UNCHANGED <<drawn, opened, other, mix, input, lifetime, scrub, lock>>
    /\ LET r == sendReadyMessages(Self, now, tt)
       IN Becomes(r.q, handedOut(Self, now, tt), r.raised \/ ~repOk(r.q))

\* deliverySucceeded(h), called back by the delivery module
DeliverySucceeded(h) ==
    /\ UNCHANGED <<drawn, opened, other, mix, input, lifetime, scrub, lock>>
    /\ Becomes(removeMessage(Self, h), <<>>, FALSE)

\* deliveryFailed(h, retriable, now), called back by the delivery module
DeliveryFailed(h, retriable, now, tt) ==
    /\ UNCHANGED <<drawn, opened, other, mix, input, lifetime, scrub, lock>>
    /\ LET q == deliveryFailed(Self, h, retriable, now, tt)
       IN Becomes(q, <<>>, h \in DOMAIN pending /\ ~repOk(q))

RemoveExpiredMessages ==
    /\ UNCHANGED <<drawn, opened, other, mix, input, lifetime, scrub, lock>>
    /\ Becomes(removeExpiredMessages(Self), <<>>, FALSE)

\* DeliveryQueue.removeMessage(h), called directly
RemoveMessage(h) ==
    /\ UNCHANGED <<drawn, opened, other, mix, input, lifetime, scrub, lock>>
    /\ Becomes(removeMessage(Self, h), <<>>, FALSE)

RemoveAll ==
    /\ UNCHANGED <<drawn, opened, other, mix, input, lifetime, scrub, lock>>
    /\ Becomes(removeAll(Self), <<>>, FALSE)

SetRetrySchedule(schedule, now, tt) ==
    /\ UNCHANGED <<drawn, opened, other, mix, input, lifetime, scrub, lock>>
    /\ LET q == setRetrySchedule(Self, schedule, now, tt)
       IN Becomes(q, <<>>, ~repOk(q))

\* cleanQueue(), called by the server from time to time
CleanQueue ==
    /\ UNCHANGED <<drawn, opened, other, mix, input, lifetime, scrub, lock>>
    /\ Becomes(cleanQueue(Self, {}), <<>>, FALSE)

\* the process stops and a new one constructs a DeliveryQueue over the
\* same directory
Restart(schedule, now, tt, order) ==
    /\ UNCHANGED <<drawn, opened, other, mix, input, lifetime, scrub, lock>>
    /\ LET q == construct(files, renames, schedule, now, tt, order)
       IN Becomes(q, <<>>, ~repOk(q))

Next ==
    \/ \E msg \in Objects, now \in NowArgs, tt \in WallTimes :
          QueueDeliveryMessage(msg, now, tt)
    \/ \E now \in NowArgs, tt \in WallTimes : SendReadyMessages(now, tt)
    \/ \E h \in DOMAIN pending : DeliverySucceeded(h)
    \/ \E h \in DOMAIN pending, retriable \in BOOLEAN, tt \in WallTimes :
          DeliveryFailed(h, retriable, None, tt)
    \/ RemoveExpiredMessages
    \/ \E h \in WithPrefix(files, "msg") : RemoveMessage(h)
    \/ RemoveAll
    \/ \E schedule \in Schedules, now \in NowArgs, tt \in WallTimes :
          SetRetrySchedule(schedule, now, tt)
    \/ CleanQueue
    \/ \E schedule \in Schedules, now \in NowArgs, tt \in WallTimes :
          \E order \in Orders(WithPrefix(files, "msg")) :
              Restart(schedule, now, tt, order)

Spec == Init /\ [][Next]_vars

----------------------------------------------------------------------------
(* The Queue core on its own: writers that open, write and commit or       *)
(* abort messages, consumers that remove and move them, and a filesystem   *)
(* whose rename may fail                                                    *)

\* handles the PRNG may produce that name no file of the directory and no
\* message a writer still holds
FreshHandles(f, held) ==
    {h \in Handles \ held : \A n \in DOMAIN f : n[2] # h}

\* a file a writer holds open: the blocks that have reached the disk and
\* the blocks still in the file object's buffer
OpenFile(disk, buf) == <<"open", disk, buf>>
IsOpen(c) == Len(c) = 3 /\ c[1] = "open"

\* f.write(s) on the file object
write(c, blocks) == OpenFile(c[2], c[3] \o blocks)

\* the file object passes the first k blocks of its buffer to the disk
flush(c, k) == OpenFile(c[2] \o SubSeq(c[3], 1, k), SubSeq(c[3], k + 1, Len(c[3])))

\* f.close(): the buffer reaches the disk
close(c) == IF IsOpen(c) THEN Raw(c[2] \o c[3]) ELSE c

\* the process stops: what is on the disk stays, the buffer is lost
crashed(c) == IF IsOpen(c) THEN Raw(c[2]) ELSE c

\* the f.close() of finishMessage and abortMessage; the file may have been
\* renamed away under the writer
closeMessage(q, h) ==
    IF Exists(q.files, "inp", h)
    THEN [q EXCEPT !.files = WriteFile(@, <<"inp", h>>, close(@[<<"inp", h>>]))]
    ELSE q

\* Queue.openNewMessage: a new, empty inp_<h>, open for writing
openNewMessage(q, h) ==
    [q EXCEPT !.files = WriteFile(@, <<"inp", h>>, OpenFile(<<>>, <<>>))]

\* a finishMessage that renames the file without closing it
finishMessage_noClose(q, h, oserr) == changeState(q, h, "inp", "msg", oserr)

\* Queue.finishMessage(f, handle)
finishMessage(q, h, oserr) ==
    changeState(closeMessage(q, h), h, "inp", "msg", oserr)

\* Queue.abortMessage(f, handle)
abortMessage(q, h, oserr) ==
    changeState(closeMessage(q, h), h, "inp", "rmv", oserr)

\* Queue.queueMessage(contents), the new file being inp_<h>
queueMessage(q, h, contents, oserr) ==
    LET q1 == openNewMessage(q, h)
        q2 == [q1 EXCEPT !.files =
                  WriteFile(@, <<"inp", h>>, write(@[<<"inp", h>>], contents))]
    IN  finishMessage(q2, h, oserr)

\* Queue.messageContents(handle): the bytes on the disk
messageContents(q, h) == q.files[<<"msg", h>>][2]

\* Queue.moveMessage(handle, queue) with this queue as destination; g is
\* the new handle.  messageContents raises IOError when msg_<h> is missing.
moveMessage(q, h, g, oserr) ==
    IF ~Exists(q.files, "msg", h) THEN q
    ELSE Queue_removeMessage(
            queueMessage(q, g, messageContents(q, h), FALSE), h, oserr)

QueueInit ==
    /\ files = EmptyDict
    /\ n_entries = -1
    /\ renames = {}
    /\ retrySchedule = NoSchedule
    /\ sendable = <<>>
    /\ pending = EmptyDict
    /\ deliveryState = EmptyDict
    /\ nextAttempt = EmptyDict
    /\ out = NoOut
    /\ drawn = 0
    /\ opened = {}
    /\ other = NoQueue
    /\ mix = NoMix
    /\ input = NoInput
    /\ lifetime = NoLifetime
    /\ scrub = NoScrub
    /\ lock = NoLock

OpenNewMessage(h) ==
    /\ h \in FreshHandles(files, opened)
    /\ opened' = opened \cup {h}
    /\ UNCHANGED <<drawn, other, mix, input, lifetime, scrub, lock>>
    /\ Returns(openNewMessage(Self, h), <<h>>, FALSE)

\* f.write(contents) by the writer holding h
WriteMessage(h, contents) ==
    /\ h \in opened /\ Exists(files, "inp", h)
    /\ files[<<"inp", h>>] = OpenFile(<<>>, <<>>)
    /\ UNCHANGED <<drawn, opened, other, mix, input, lifetime, scrub, lock>>
    /\ Becomes([Self EXCEPT !.files =
                   WriteFile(@, <<"inp", h>>, write(@[<<"inp", h>>], contents))],
               <<>>, FALSE)

\* the file object of the writer holding h empties part of its buffer
FlushMessage(h) ==
    /\ h \in opened /\ Exists(files, "inp", h)
    /\ UNCHANGED <<drawn, opened, other, mix, input, lifetime, scrub, lock>>
    /\ \E k \in 1..Len(files[<<"inp", h>>][3]) :
          Returns([Self EXCEPT !.files =
                      WriteFile(@, <<"inp", h>>, flush(@[<<"inp", h>>], k))],
                  out.ret, out.raised)

\* finishMessage by a writer that has written its message
FinishMessage(h, oserr) ==
    /\ h \in opened
    /\ Exists(files, "inp", h) => files[<<"inp", h>>] # OpenFile(<<>>, <<>>)
    /\ opened' = opened \ {h}
    /\ UNCHANGED <<drawn, other, mix, input, lifetime, scrub, lock>>
    /\ Becomes(finishMessage(Self, h, oserr), <<>>, FALSE)

AbortMessage(h, oserr) ==
    /\ h \in opened
    /\ opened' = opened \ {h}
    /\ UNCHANGED <<drawn, other, mix, input, lifetime, scrub, lock>>
    /\ Becomes(abortMessage(Self, h, oserr), <<>>, FALSE)

QueueMessage(h, contents, oserr) ==
    /\ h \in FreshHandles(files, opened)
    /\ UNCHANGED <<drawn, opened, other, mix, input, lifetime, scrub, lock>>
    /\ Returns(queueMessage(Self, h, contents, oserr), <<h>>, FALSE)

QueueRemoveMessage(h, oserr) ==
    /\ UNCHANGED <<drawn, opened, other, mix, input, lifetime, scrub, lock>>
    /\ Becomes(Queue_removeMessage(Self, h, oserr), <<>>, FALSE)

QueueRemoveAll(failing) ==
    /\ UNCHANGED <<drawn, opened, other, mix, input, lifetime, scrub, lock>>
    /\ Becomes(Queue_removeAll(Self, failing), <<>>, FALSE)

MoveMessage(h, g, oserr) ==
    /\ g \in FreshHandles(files, opened)
    /\ UNCHANGED <<drawn, opened, other, mix, input, lifetime, scrub, lock>>
    /\ Returns(moveMessage(Self, h, g, oserr),
               IF Exists(files, "msg", h) THEN <<g>> ELSE <<>>,
               ~Exists(files, "msg", h))

\* cleanQueue(); aged: the inp_ files it finds timed out
QueueCleanQueue(aged) ==
    /\ UNCHANGED <<drawn, opened, other, mix, input, lifetime, scrub, lock>>
    /\ Becomes(cleanQueue(Self, aged), <<>>, FALSE)

\* count(): counts the directory if the cache is not valid
Count ==
    /\ UNCHANGED <<drawn, opened, other, mix, input, lifetime, scrub, lock>>
    /\ Returns([Self EXCEPT !.n_entries = count(Self)], <<count(Self)>>, FALSE)

\* the directory after the process has stopped
Crash(f) == [n \in DOMAIN f |-> crashed(f[n])]

\* the process stops; a new one runs Queue.__init__(dir, scrub=1)
QueueRestart(aged) ==
    /\ opened' = {}
    /\ UNCHANGED <<drawn, other, mix, input, lifetime, scrub, lock>>
    /\ Becomes([cleanQueue([Self EXCEPT !.files = Crash(@)], aged)
                   EXCEPT !.n_entries = -1], <<>>, FALSE)

QueueNext ==
    \/ \E h \in Handles : OpenNewMessage(h)
    \/ \E h \in Handles, c \in Contents : WriteMessage(h, c)
    \/ \E h \in Handles : FlushMessage(h)
    \/ \E h \in Handles, oserr \in BOOLEAN : FinishMessage(h, oserr)
    \/ \E h \in Handles, oserr \in BOOLEAN : AbortMessage(h, oserr)
    \/ \E h \in Handles, c \in Contents, oserr \in BOOLEAN :
          QueueMessage(h, c, oserr)
    \/ \E h \in Handles, oserr \in BOOLEAN : QueueRemoveMessage(h, oserr)
    \/ \E failing \in SUBSET {n \in DOMAIN files : n[1] \in {"inp", "msg"}} :
          QueueRemoveAll(failing)
    \/ \E h, g \in Handles, oserr \in BOOLEAN : MoveMessage(h, g, oserr)
    \/ \E aged \in SUBSET WithPrefix(files, "inp") : QueueCleanQueue(aged)
    \/ Count
    \/ \E aged \in SUBSET WithPrefix(files, "inp") : QueueRestart(aged)

QueueSpec == QueueInit /\ [][QueueNext]_vars

----------------------------------------------------------------------------
(* getNextAttempt on its own: a DeliveryQueue that has just loaded the     *)
(* state of one message, with any stored times and any schedule, and       *)
(* computes nextAttempt (_rescan between _loadState and                    *)
(* _rebuildNextAttempt, and every later setRetrySchedule)                  *)

\* schedules of at most MaxLen intervals in 0..MaxInterval, and the
\* documented example
ScheduleInputs ==
    UNION {[1..n -> 0..MaxInterval] : n \in 0..MaxLen} \cup {<<10, 20, 40>>}

\* stored lastAttempt values
LastInputs == {None} \cup Times \cup {15, 70}

NextAttemptInit ==
    /\ files = WriteFile(EmptyDict, <<"msg", "a">>, Pickle("obj"))
    /\ n_entries = -1
    /\ renames = {<<"inp", "msg">>}
    /\ retrySchedule \in ScheduleInputs
    /\ sendable = <<"a">>
    /\ pending = EmptyDict
    /\ \E queued \in Times, last \in LastInputs :
          deliveryState =
             Put(EmptyDict, "a", [queuedTime |-> queued, lastAttempt |-> last])
    /\ nextAttempt = EmptyDict
    /\ out = NoOut
    /\ drawn = 1
    /\ opened = {}
    /\ other = NoQueue
    /\ mix = NoMix
    /\ input = NoInput
    /\ lifetime = NoLifetime
    /\ scrub = NoScrub
    /\ lock = NoLock

RebuildNextAttempt(now, tt) ==
    /\ UNCHANGED <<drawn, opened, other, mix, input, lifetime, scrub, lock>>
    /\ Becomes(rebuildNextAttempt(Self, now, tt), <<>>, FALSE)

NextAttemptNext ==
    \E now \in NowArgs, tt \in WallTimes : RebuildNextAttempt(now, tt)

NextAttemptSpec == NextAttemptInit /\ [][NextAttemptNext]_vars

----------------------------------------------------------------------------
(* What the retry schedule prescribes, stated apart from the code *)

RECURSIVE SumTo(_, _)
SumTo(schedule, k) == IF k = 0 THEN 0 ELSE SumTo(schedule, k - 1) + schedule[k]

\* the scheduled delivery times of a message queued at queuedTime
ScheduledTimes(queuedTime, schedule) ==
    {queuedTime + SumTo(schedule, k) : k \in 1..Len(schedule)}

\* the smallest scheduled time strictly after `last`, None if there is none
ScheduledAfter(queuedTime, schedule, last) ==
    LET later == {t \in ScheduledTimes(queuedTime, schedule) : t > last}
    IN IF later = {} THEN None
       ELSE CHOOSE t \in later : \A u \in later : t <= u

\* the time a call passing `now` takes to be the current time
Effective(now, tt) == IF now = None THEN tt ELSE now

HasMeta(h) == Exists(files, "meta", h)
HasMsg(h) == Exists(files, "msg", h)

----------------------------------------------------------------------------
(* Claims about the Queue core *)

\* C1: after any sequence of Queue operations, those whose rename fails
\* included, count() returns the number of msg_ files in the directory.
C1_CountIsExact == count(Self) = Cardinality(WithPrefix(files, "msg"))

AllowedRenames == {<<"inp", "msg">>, <<"inp", "rmv">>, <<"msg", "rmv">>}

\* C10: the only renames of message files any operation performs are
\* inp_ to msg_, inp_ to rmv_ and msg_ to rmv_; no step takes a handle with
\* an rmv_ file back to inp_ or msg_, nor one with a msg_ file back to inp_.
C10_OnlyForwardTransitions ==
    [][/\ renames' \subseteq AllowedRenames
       /\ \A h \in Handles :
             /\ Exists(files, "rmv", h) =>
                   ~Exists(files', "inp", h) /\ ~Exists(files', "msg", h)
             /\ (Exists(files, "msg", h) /\ ~Exists(files, "inp", h)) =>
                   ~Exists(files', "inp", h)]_vars

\* all three transitions have happened, and a tombstone is in the directory
C10_Witness ==
    /\ renames = AllowedRenames
    /\ WithPrefix(files, "rmv") # {}

----------------------------------------------------------------------------
(* Claims about getNextAttempt *)

\* C6: getNextAttempt returns `now` when lastAttempt is unset; otherwise the
\* smallest queuedTime + schedule[1] + ... + schedule[k] that is strictly
\* greater than lastAttempt, and None when there is none.
C6_NextAttemptAsSpecified ==
    [][\A now \in NowArgs, tt \in WallTimes :
          RebuildNextAttempt(now, tt) =>
             \A h \in DOMAIN deliveryState :
                nextAttempt'[h] =
                   IF deliveryState[h].lastAttempt = None
                   THEN Effective(now, tt)
                   ELSE ScheduledAfter(deliveryState[h].queuedTime,
                                       retrySchedule,
                                       deliveryState[h].lastAttempt)]_vars

----------------------------------------------------------------------------
(* Claims about the DeliveryQueue *)

\* C2: after every completed DeliveryQueue operation, construction at
\* startup included, meta_<h> exists if and only if msg_<h> exists.
C2_MetaIffMsg == \A h \in Handles : HasMeta(h) <=> HasMsg(h)

\* C3: a restart keeps, for every message still queued, the queuedTime and
\* lastAttempt it had, leaves it in sendable and not in pending, and
\* recomputes nextAttempt from those two values.
C3_RestartKeepsState ==
    [][\A schedule \in Schedules, now \in NowArgs, tt \in WallTimes :
         \A order \in Orders(WithPrefix(files, "msg")) :
            Restart(schedule, now, tt, order) =>
               \A h \in WithPrefix(files', "msg") \cap DOMAIN deliveryState :
                  /\ deliveryState'[h] = deliveryState[h]
                  /\ h \in Range(sendable') /\ h \notin DOMAIN pending'
                  /\ deliveryState[h].lastAttempt # None =>
                        nextAttempt'[h] =
                           ScheduledAfter(deliveryState[h].queuedTime, schedule,
                                          deliveryState[h].lastAttempt)]_vars

\* C5: a message queued with now = t and not yet attempted is handed to
\* _deliverMessages by a sendReadyMessages(now = t') with t' >= t, for
\* every t >= 0.
C5_FreshMessageIsSent ==
    [][\A now \in Times, tt \in WallTimes :
         SendReadyMessages(now, tt) =>
            \A h \in Range(sendable) :
               (deliveryState[h].lastAttempt = None
                   /\ deliveryState[h].queuedTime <= now)
               => h \in Range(out'.batch)]_vars

\* C8: after removeExpiredMessages no handle left in sendable has
\* nextAttempt = None, and every handle that was not expired is still queued.
C8_ExpiredAreRemoved ==
    [][RemoveExpiredMessages =>
          /\ \A h \in Range(sendable') : nextAttempt'[h] # None
          /\ \A h \in Range(sendable) :
                nextAttempt[h] # None =>
                    h \in Range(sendable') /\ Exists(files', "msg", h)]_vars

\* C4: a retriable deliveryFailed writes the message's queuedTime and the
\* time of the failed attempt to meta_<h>; a restart that finds that file
\* loads both values, puts the message in sendable with nextAttempt the
\* next scheduled time after the last attempt, and sendReadyMessages(now)
\* then hands the message out exactly when that time exists and is <= now.
C4_RetryStateSurvivesRestart ==
    /\ \A h \in DOMAIN pending \cap DOMAIN deliveryState, tt \in WallTimes :
          LET q == deliveryFailed(Self, h, TRUE, None, tt)
          IN h \in Range(q.sendable) =>
                /\ Exists(q.files, "meta", h)
                /\ q.files[<<"meta", h>>] =
                      <<"V0", deliveryState[h].queuedTime, pending[h]>>
    /\ \A schedule \in Schedules, now \in NowArgs, tt \in WallTimes :
          \A order \in Orders(WithPrefix(files, "msg")) :
             LET q == construct(files, renames, schedule, now, tt, order)
             IN \A h \in Handles :
                   (HasMsg(h) /\ HasMeta(h) /\ files[<<"meta", h>>][3] # None) =>
                      LET queued == files[<<"meta", h>>][2]
                          last == files[<<"meta", h>>][3]
                          due == ScheduledAfter(queued, schedule, last)
                      IN /\ h \in Range(q.sendable) /\ h \notin DOMAIN q.pending
                         /\ q.deliveryState[h] =
                               [queuedTime |-> queued, lastAttempt |-> last]
                         /\ q.nextAttempt[h] = due
                         /\ \A now2 \in NowArgs :
                               h \in Range(handedOut(q, now2, tt))
                               <=> (due # None /\ due <= Effective(now2, tt))

\* a message that failed, went through one restart (which consumed its
\* meta_ file) and was handed out again
C4_Witness ==
    \E h \in Range(out.batch) :
        /\ h \in DOMAIN deliveryState
        /\ deliveryState[h].lastAttempt # None
        /\ ~HasMeta(h)

\* C7: after a retriable deliveryFailed for an attempt started at time s,
\* the message waits in sendable with lastAttempt = s; sendReadyMessages(now)
\* hands it out exactly when now >= the smallest scheduled time (queuedTime
\* plus a prefix sum of the schedule) that is > s; when no such time exists
\* deliveryFailed removes the message instead of requeueing it.
C7_RetryFollowsSchedule ==
    /\ \A h \in DOMAIN pending \cap DOMAIN deliveryState, tt \in WallTimes :
          LET q == deliveryFailed(Self, h, TRUE, None, tt)
              due == ScheduledAfter(deliveryState[h].queuedTime,
                                    retrySchedule, pending[h])
          IN IF due = None
             THEN /\ h \notin Range(q.sendable) \cup DOMAIN q.pending
                  /\ ~Exists(q.files, "msg", h)
             ELSE /\ h \in Range(q.sendable) /\ h \notin DOMAIN q.pending
                  /\ q.deliveryState[h].lastAttempt = pending[h]
                  /\ \A now \in NowArgs :
                        h \in Range(handedOut(q, now, tt))
                        <=> due <= Effective(now, tt)
    /\ \A h \in Range(sendable), now \in NowArgs, tt \in WallTimes :
          deliveryState[h].lastAttempt # None =>
             LET due == ScheduledAfter(deliveryState[h].queuedTime,
                                       retrySchedule,
                                       deliveryState[h].lastAttempt)
             IN h \in Range(handedOut(Self, now, tt))
                <=> (due # None /\ due <= Effective(now, tt))

\* a message handed out again after a failed attempt, by the same process
C7_Witness ==
    \E h \in Range(out.batch) :
        /\ h \in DOMAIN deliveryState
        /\ deliveryState[h].lastAttempt # None
        /\ HasMeta(h)

\* h, pending, is still pending with the same time once the queue is q
StaysPending(h, q) == h \in DOMAIN q.pending /\ q.pending[h] = pending[h]

\* h stays pending under queueDeliveryMessage, sendReadyMessages,
\* setRetrySchedule, removeExpiredMessages, cleanQueue and the callbacks
\* and removals for other handles, whatever their arguments
StaysPendingUnderOthers(h) ==
    /\ \A msg \in Objects, now \in NowArgs, tt \in WallTimes :
          drawn < Len(HandleNames) =>
             StaysPending(h, queueDeliveryMessage(Self, HandleNames[drawn + 1],
                                                  msg, now, tt))
    /\ \A now \in NowArgs, tt \in WallTimes :
          StaysPending(h, sendReadyMessages(Self, now, tt).q)
    /\ \A schedule \in Schedules, now \in NowArgs, tt \in WallTimes :
          StaysPending(h, setRetrySchedule(Self, schedule, now, tt))
    /\ StaysPending(h, removeExpiredMessages(Self))
    /\ StaysPending(h, cleanQueue(Self, {}))
    /\ \A g \in Handles \ {h} :
          /\ StaysPending(h, removeMessage(Self, g))
          /\ \A retriable \in BOOLEAN, tt \in WallTimes :
                StaysPending(h, deliveryFailed(Self, g, retriable, None, tt))

\* C9 as stated: a pending handle stays pending under every other queue
\* operation, removeAll included, until deliverySucceeded or deliveryFailed
\* is called for it.
C9_PendingUntilCallback ==
    \A h \in DOMAIN pending :
       StaysPendingUnderOthers(h) /\ StaysPending(h, removeAll(Self))

\* C9 (amended): a pending handle stays pending, with its time, under
\* queueDeliveryMessage, sendReadyMessages, setRetrySchedule,
\* removeExpiredMessages, cleanQueue and callbacks for other handles;
\* removeAll is not among them.
C9_PendingUntilCallbackOrRemoveAll ==
    \A h \in DOMAIN pending : StaysPendingUnderOthers(h)

\* a later sendReadyMessages handed out another message while h stayed
\* pending with the time of its own batch
C9_Witness ==
    \E h \in DOMAIN pending :
        /\ out.batch # <<>>
        /\ h \notin Range(out.batch)

----------------------------------------------------------------------------
\* C11: a process that stops inside queueMessage or queueObject never
\* leaves a msg_<h> file with partial contents: a file gets the msg_ prefix
\* only after it has been written completely and closed, so every msg_
\* file, also after a crash, holds a whole message.
C11_NoPartialMessage ==
    \A n \in WithPrefix(files, "msg") :
        files[<<"msg", n>>] \in {Raw(c) : c \in Contents}

\* a crash has cut one message short, which stays inp_, beside a
\* committed one
C11_Witness ==
    \E h, g \in Handles :
        /\ Exists(files, "inp", h) /\ files[<<"inp", h>>] = Raw(<<"m1">>)
        /\ Exists(files, "msg", g)
        /\ opened = {}
----------------------------------------------------------------------------
\* C12: queueMessage and queueObject are atomic with respect to a
\* concurrent removeAll, cleanQueue or removeMessage: whenever the writer's
\* last step, finishMessage, completes with its rename not failing, so that
\* queueMessage returns h, msg_<h> holding exactly the contents has been
\* committed by that step.
C12_QueueMessageCommits ==
    [][\A h \in Handles :
          FinishMessage(h, FALSE) =>
              /\ Exists(files', "msg", h)
              /\ files'[<<"msg", h>>] \in {Raw(c) : c \in Contents}]_vars
----------------------------------------------------------------------------
(* The Queue core with every handle openNewFile may return: it creates     *)
(* inp_<h> exclusively, so h names no inp_ file                            *)

\* largest cached count at which a writer still opens a message
MaxEntries == 3

OpenAnyMessage(h) ==
    /\ n_entries < MaxEntries
    /\ h \in openNewFile(files)
    /\ opened' = opened \cup {h}
    /\ UNCHANGED <<drawn, other, mix, input, lifetime, scrub, lock>>
    /\ Returns(openNewMessage(Self, h), <<h>>, FALSE)

CollisionNext ==
    \/ QueueNext
    \/ \E h \in Handles : OpenAnyMessage(h)

CollisionSpec == QueueInit /\ [][CollisionNext]_vars

\* C13: the handle openNewMessage returns names no file of the directory
\* in any state (inp_, msg_ or rmv_), whatever the PRNG produces, so that
\* committing the new message overwrites no msg_ file and leaves a correct
\* count correct.
C13_HandleIsNew ==
    [][\A h \in Handles :
          /\ OpenAnyMessage(h) => \A n \in DOMAIN files : n[2] # h
          /\ FinishMessage(h, FALSE) =>
                /\ ~Exists(files, "msg", h)
                /\ n_entries = Cardinality(WithPrefix(files, "msg")) =>
                      n_entries' = Cardinality(WithPrefix(files', "msg"))]_vars
----------------------------------------------------------------------------
\* C14: cleanQueue hands every rmv_ file to the delete function, renames
\* every timed-out inp_ file to rmv_ and hands that tombstone over in the
\* same call: after the scrub no rmv_ file and no timed-out inp_ file is
\* left.
C14_ScrubLeavesNoTombstone ==
    [][\A aged \in SUBSET WithPrefix(files, "inp") :
          QueueCleanQueue(aged) =>
              /\ WithPrefix(files', "rmv") = {}
              /\ WithPrefix(files', "inp") \cap aged = {}]_vars
----------------------------------------------------------------------------
\* C15: when the rename of a state change fails (here removeMessage on a
\* handle without msg_ file, or with os.rename raising), no exception
\* propagates, no file changes state, the cached count is recomputed from
\* the directory, and the caller is told of the failure: what the call
\* returns is not the None a successful call returns.
C15_FailedRenameIsReported ==
    [][\A h \in Handles, oserr \in BOOLEAN :
          QueueRemoveMessage(h, oserr) /\ (oserr \/ ~Exists(files, "msg", h)) =>
              /\ ~out'.raised
              /\ files' = files
              /\ n_entries' = Cardinality(WithPrefix(files', "msg"))
              /\ out'.ret # <<>>]_vars

----------------------------------------------------------------------------
(* Two queues: messages are queued in one and moved to the other, which   *)
(* is a plain Queue or a DeliveryQueue                                     *)

\* the second queue, empty, as a Queue or as a DeliveryQueue
OtherQueue(isDelivery) ==
    [files |-> EmptyDict, n_entries |-> -1, renames |-> {},
     isDelivery |-> isDelivery]

\* DeliveryQueue.queueMessage with the body of Queue.queueMessage
DeliveryQueue_queueMessage_asQueue(q, g, contents, oserr) ==
    [q |-> queueMessage(q, g, contents, oserr), raised |-> FALSE]

\* DeliveryQueue.queueMessage(msg): raises MixError
DeliveryQueue_queueMessage(q, g, contents, oserr) ==
    [q |-> q, raised |-> TRUE]

\* queue.queueMessage(contents), by the class of the queue; g is the handle
\* the PRNG produces, oserr: the rename inp_<g> -> msg_<g> fails
dispatch_queueMessage(q, g, contents, oserr) ==
    IF q.isDelivery THEN DeliveryQueue_queueMessage(q, g, contents, oserr)
    ELSE [q |-> queueMessage(q, g, contents, oserr), raised |-> FALSE]

\* Queue.moveMessage(handle, queue): messageContents raises IOError when
\* msg_<h> is missing; an exception of queue.queueMessage propagates
moveMessageTo(q, dest, h, g, destErr, oserr) ==
    IF ~Exists(q.files, "msg", h)
    THEN [q |-> q, dest |-> dest, raised |-> TRUE, ret |-> <<>>]
    ELSE LET r == dispatch_queueMessage(dest, g, messageContents(q, h), destErr)
         IN  IF r.raised
             THEN [q |-> q, dest |-> r.q, raised |-> TRUE, ret |-> <<>>]
             ELSE [q |-> Queue_removeMessage(q, h, oserr), dest |-> r.q,
                   raised |-> FALSE, ret |-> <<g>>]

MoveInit ==
    /\ files = EmptyDict
    /\ n_entries = -1
    /\ renames = {}
    /\ retrySchedule = NoSchedule
    /\ sendable = <<>>
    /\ pending = EmptyDict
    /\ deliveryState = EmptyDict
    /\ nextAttempt = EmptyDict
    /\ out = NoOut
    /\ drawn = 0
    /\ opened = {}
    /\ other \in {OtherQueue(d) : d \in BOOLEAN}
    /\ mix = NoMix
    /\ input = NoInput
    /\ lifetime = NoLifetime
    /\ scrub = NoScrub
    /\ lock = NoLock

MoveMessageTo(h, g, destErr, oserr) ==
    /\ g \in FreshHandles(other.files, {})
    /\ LET r == moveMessageTo(Self, other, h, g, destErr, oserr)
       IN  /\ other' = r.dest
           /\ Returns(r.q, r.ret, r.raised)
    /\ UNCHANGED <<drawn, opened, mix, input, lifetime, scrub, lock>>

\* the process stops inside moveMessage, after queue.queueMessage and
\* before self.removeMessage
CrashInMove(h, g, destErr) ==
    /\ g \in FreshHandles(other.files, {})
    /\ Exists(files, "msg", h)
    /\ other' = dispatch_queueMessage(other, g, messageContents(Self, h), destErr).q
    /\ Returns([Self EXCEPT !.n_entries = -1], <<>>, FALSE)
    /\ UNCHANGED <<drawn, opened, mix, input, lifetime, scrub, lock>>

\* queueMessage called on the second queue
OtherQueueMessage(g, contents, oserr) ==
    /\ g \in FreshHandles(other.files, {})
    /\ LET r == dispatch_queueMessage(other, g, contents, oserr)
       IN  /\ other' = r.q
           /\ Returns(Self, IF r.raised THEN <<>> ELSE <<g>>, r.raised)
    /\ UNCHANGED <<drawn, opened, mix, input, lifetime, scrub, lock>>

\* removeAll called on the second queue
OtherRemoveAll ==
    /\ other' = Queue_removeAll(other, {})
    /\ Returns(Self, <<>>, FALSE)
    /\ UNCHANGED <<drawn, opened, mix, input, lifetime, scrub, lock>>

MoveNext ==
    \/ \E h \in Handles, c \in Contents, oserr \in BOOLEAN :
          QueueMessage(h, c, oserr)
    \/ \E h \in Handles, oserr \in BOOLEAN : QueueRemoveMessage(h, oserr)
    \/ \E aged \in SUBSET WithPrefix(files, "inp") : QueueCleanQueue(aged)
    \/ \E h, g \in Handles, destErr, oserr \in BOOLEAN :
          MoveMessageTo(h, g, destErr, oserr)
    \/ \E h, g \in Handles, destErr \in BOOLEAN : CrashInMove(h, g, destErr)
    \/ \E g \in Handles, c \in Contents, oserr \in BOOLEAN :
          OtherQueueMessage(g, c, oserr)
    \/ OtherRemoveAll

MoveSpec == MoveInit /\ [][MoveNext]_vars

\* C16: moveMessage(h, q2) commits in q2 a msg_ file with the same contents
\* before it tombstones msg_<h> in the source: in between, also when the
\* process stops there, the message is committed in at least one of the
\* two queues, and when moveMessage has returned it is committed in q2
\* under the returned handle, no longer in the source, whose count() is
\* one less.
C16_MoveKeepsMessage ==
    [][\A h, g \in Handles, destErr \in BOOLEAN :
          /\ CrashInMove(h, g, destErr) =>
                Exists(files', "msg", h) \/ Exists(other'.files, "msg", g)
          /\ \A oserr \in BOOLEAN :
                MoveMessageTo(h, g, destErr, oserr) /\ ~out'.raised =>
                    /\ out'.ret = <<g>>
                    /\ Exists(other'.files, "msg", g)
                    /\ other'.files[<<"msg", g>>] = files[<<"msg", h>>]
                    /\ ~Exists(files', "msg", h)
                    /\ count(Self)' = count(Self) - 1]_vars
----------------------------------------------------------------------------
\* C17: queueMessage called on a DeliveryQueue always raises, creates no
\* file and changes nothing of the queue; so moveMessage of a committed
\* message into a DeliveryQueue raises and leaves the source queue, its
\* msg_ file and its count, as it was.
C17_DeliveryQueueRefuses ==
    other.isDelivery =>
        \A g \in Handles, destErr \in BOOLEAN :
            /\ \A c \in Contents :
                  dispatch_queueMessage(other, g, c, destErr)
                      = [q |-> other, raised |-> TRUE]
            /\ \A h \in WithPrefix(files, "msg"), oserr \in BOOLEAN :
                  LET r == moveMessageTo(Self, other, h, g, destErr, oserr)
                  IN  r.raised /\ r.q = Self /\ r.dest = other

\* a call has raised on a DeliveryQueue that is still empty, while every
\* handle of the source queue names a committed message
C17_Witness ==
    /\ other.isDelivery /\ out.raised
    /\ WithPrefix(files, "msg") = Handles
    /\ DOMAIN other.files = {}
----------------------------------------------------------------------------
(* CottrellMixPool: a Queue whose getBatch picks part of the pool          *)

\* largest pool, and largest rotation the PRNG's shuffle is given
\* largest pool of a BinomialCottrellMixPool
MaxBinomialPool == 4
MaxPool == 100
MaxShift == 1

Min(a, b) == IF a <= b THEN a ELSE b
Max(a, b) == IF a >= b THEN a ELSE b

\* sendRate values: the fraction num/den as written, and the double the
\* interpreter makes of it, 0x<hex[1]>.<hex[2..14]>p<exp>
SendRates ==
    { [num |-> 7, den |-> 10, exp |-> -1,
       hex |-> <<1, 6, 6, 6, 6, 6, 6, 6, 6, 6, 6, 6, 6, 6>>],
      [num |-> 1, den |-> 2, exp |-> -1,
       hex |-> <<1, 0, 0, 0, 0, 0, 0, 0, 0, 0, 0, 0, 0, 0>>],
      [num |-> 1, den |-> 1, exp |-> 0,
       hex |-> <<1, 0, 0, 0, 0, 0, 0, 0, 0, 0, 0, 0, 0, 0>>],
      [num |-> 1, den |-> 10, exp |-> -4,
       hex |-> <<1, 9, 9, 9, 9, 9, 9, 9, 9, 9, 9, 9, 9, 10>>] }

\* the binary digits of a mantissa given in hexadecimal, lowest first
RECURSIVE hexBits(_)
hexBits(hex) ==
    IF hex = <<>> THEN <<>>
    ELSE LET d == hex[Len(hex)]
         IN  <<d % 2, (d \div 2) % 2, (d \div 4) % 2, d \div 8>>
                 \o hexBits(SubSeq(hex, 1, Len(hex) - 1))

\* the binary digits of pool * mantissa, lowest first
RECURSIVE timesBits(_, _, _, _)
timesBits(bits, i, pool, carry) ==
    IF i > Len(bits)
    THEN IF carry = 0 THEN <<>>
         ELSE <<carry % 2>> \o timesBits(bits, i, pool, carry \div 2)
    ELSE LET t == pool * bits[i] + carry
         IN  <<t % 2>> \o timesBits(bits, i + 1, pool, t \div 2)

\* the integer whose binary digits, lowest first, are bits[from..]
RECURSIVE bitsValue(_, _)
bitsValue(bits, from) ==
    IF from > Len(bits) THEN 0
    ELSE bits[from] + 2 * bitsValue(bits, from + 1)

\* int(pool * sendRate) in double arithmetic: the exact product is rounded
\* to 53 significant bits, ties to even, and then truncated
intOfProduct(pool, x) ==
    LET bits == timesBits(hexBits(x.hex), 1, pool, 0)
        ones == {i \in DOMAIN bits : bits[i] = 1}
        len  == IF ones = {} THEN 0
                ELSE CHOOSE i \in ones : \A j \in ones : j <= i
        s    == IF len > 53 THEN len - 53 ELSE 0
        up   == /\ s > 0
                /\ bits[s] = 1
                /\ \/ \E j \in 1..(s - 1) : bits[j] = 1
                   \/ bits[s + 1] = 1
        sh   == 52 - x.exp
    IN  bitsValue(bits, sh + 1)
          + (IF up /\ \A j \in (s + 1)..sh : bits[j] = 1 THEN 1 ELSE 0)

\* a _getBatchSize that does not keep minPool messages back
getBatchSize_noSendable(q, m) ==
    LET pool == count(q)
    IN  IF pool >= m.minPool + m.minSend
        THEN Max(1, intOfProduct(pool, m.sendRate))
        ELSE 0

\* CottrellMixPool._getBatchSize
getBatchSize(q, m) ==
    LET pool == count(q)
    IN  IF pool >= m.minPool + m.minSend
        THEN LET sendable_ == pool - m.minPool
             IN  Min(sendable_, Max(1, intOfProduct(pool, m.sendRate)))
        ELSE 0

\* Queue.pickRandom(count): shuffle(handles, count) returns `count` of the
\* handles, all of them if there are fewer.  The handles of the pool are
\* 1..P; of the orders the PRNG may produce, the rotations by k.
pickRandom(q, cnt, k) ==
    LET P == Cardinality(getAllMessages(q))
    IN  [i \in 1..Min(cnt, P) |-> ((i + k - 1) % P) + 1]

\* CottrellMixPool.getBatch
getBatch(q, m, k) ==
    LET n == getBatchSize(q, m)
    IN  IF n # 0 THEN pickRandom(q, n, k) ELSE <<>>

\* rng.shuffle(lst): the elements of lst in one of the orders the PRNG
\* may produce, here the ascending order rotated by k
RECURSIVE ascending(_)
ascending(S) ==
    IF S = {} THEN <<>>
    ELSE LET least == CHOOSE x \in S : \A y \in S : x <= y
         IN  <<least>> \o ascending(S \ {least})

shuffle(S, k) ==
    LET lst == ascending(S)
    IN  [i \in 1..Len(lst) |-> lst[((i + k - 1) % Len(lst)) + 1]]

\* rng.getFloat() returns u / Resolution for some u in 0..Resolution-1
Resolution == MaxPool

\* the getFloat() draws of one getBatch, one for each handle: the least
\* and the greatest value
Draws(H) == [H -> {0, Resolution - 1}]

\* a getBatch that sends exactly the Cottrell batch
binomialGetBatch_exact(q, m, draw, k) == getBatch(q, m, k)

\* _BinomialMixin.getBatch; draw[h] / Resolution is the value of
\* rng.getFloat() for the handle h
binomialGetBatch(q, m, draw, k) ==
    LET n == getBatchSize(q, m)
        cnt == count(q)
    IN  IF n = 0 \/ cnt = 0 THEN <<>>
        ELSE shuffle({h \in getAllMessages(q) :
                         draw[h] * cnt < n * Resolution}, k)

PoolInit ==
    /\ files = EmptyDict
    /\ n_entries = -1
    /\ renames = {}
    /\ retrySchedule = NoSchedule
    /\ sendable = <<>>
    /\ pending = EmptyDict
    /\ deliveryState = EmptyDict
    /\ nextAttempt = EmptyDict
    /\ out = NoOut
    /\ drawn = 0
    /\ opened = {}
    /\ other = NoQueue
    /\ mix \in [minPool : {0, 6}, minSend : {0, 1}, sendRate : SendRates]
    /\ input = NoInput
    /\ lifetime = NoLifetime
    /\ scrub = NoScrub
    /\ lock = NoLock

\* queueMessage on the pool; the new handle is the next number
PoolQueueMessage(contents) ==
    /\ count(Self) < MaxPool
    /\ Returns(queueMessage(Self, count(Self) + 1, contents, FALSE),
               <<count(Self) + 1>>, FALSE)
    /\ UNCHANGED <<drawn, opened, other, mix, input, lifetime, scrub, lock>>

\* the newest message is removed and its tombstone scrubbed
PoolRemoveMessage ==
    /\ count(Self) > 0
    /\ Returns(cleanQueue(Queue_removeMessage(Self, count(Self), FALSE), {}),
               <<>>, FALSE)
    /\ UNCHANGED <<drawn, opened, other, mix, input, lifetime, scrub, lock>>

GetBatch(k) ==
    /\ Returns([Self EXCEPT !.n_entries = count(Self)],
               getBatch(Self, mix, k), FALSE)
    /\ UNCHANGED <<drawn, opened, other, mix, input, lifetime, scrub, lock>>

\* BinomialCottrellMixPool.getBatch()
BinomialGetBatch(draw, k) ==
    /\ Returns([Self EXCEPT !.n_entries = count(Self)],
               binomialGetBatch(Self, mix, draw, k), FALSE)
    /\ UNCHANGED <<drawn, opened, other, mix, input, lifetime, scrub, lock>>

PoolNext ==
    \/ \E c \in Contents : PoolQueueMessage(c)
    \/ PoolRemoveMessage
    \/ \E k \in 0..MaxShift : GetBatch(k)

\* a BinomialCottrellMixPool of at most MaxBinomialPool messages
BinomialNext ==
    \/ \E c \in Contents : count(Self) < MaxBinomialPool /\ PoolQueueMessage(c)
    \/ PoolRemoveMessage
    \/ \E draw \in Draws(getAllMessages(Self)), k \in 0..MaxShift :
          BinomialGetBatch(draw, k)

BinomialSpec == PoolInit /\ [][BinomialNext]_vars

PoolSpec == PoolInit /\ [][PoolNext]_vars
----------------------------------------------------------------------------
\* C18: with P messages in the pool the batch size is 0 when
\* P < minPool + minSend and min(P - minPool, max(1, floor(P * sendRate)))
\* otherwise; getBatch returns that many distinct handles, each naming a
\* msg_ file; with the defaults P = 6 gives 0, 7 gives 1, 10 gives 4 and
\* 100 gives 70.
C18_BatchSizeAsSpecified ==
    LET P == count(Self)
        size == IF P < mix.minPool + mix.minSend THEN 0
                ELSE Min(P - mix.minPool,
                         Max(1, (P * mix.sendRate.num) \div mix.sendRate.den))
    IN  /\ getBatchSize(Self, mix) = size
        /\ \A k \in 0..MaxShift :
              LET b == getBatch(Self, mix, k)
              IN  /\ Len(b) = size
                  /\ Cardinality(Range(b)) = Len(b)
                  /\ Range(b) \subseteq getAllMessages(Self)
        /\ (mix.minPool = 6 /\ mix.minSend = 1 /\ mix.sendRate.num = 7) =>
              /\ P = 6 => getBatchSize(Self, mix) = 0
              /\ P = 7 => getBatchSize(Self, mix) = 1
              /\ P = 10 => getBatchSize(Self, mix) = 4
              /\ P = 100 => getBatchSize(Self, mix) = 70

\* C19: for minPool >= 0, minSend >= 0 and sendRate in (0, 1], getBatch
\* never returns more than sendRate * P handles from a pool of P.
C19_AtMostSendRate ==
    \A k \in 0..MaxShift :
        Len(getBatch(Self, mix, k)) * mix.sendRate.den
            <= mix.sendRate.num * count(Self)

\* C20: a non-empty batch is returned only from a pool of at least
\* minPool + minSend messages, and removing all of it leaves at least
\* minPool messages in the pool.
C20_BatchLeavesMinPool ==
    \A k \in 0..MaxShift :
        LET P == count(Self)
            b == getBatch(Self, mix, k)
        IN  b # <<>> =>
              /\ P >= mix.minPool + mix.minSend
              /\ P - Len(b) >= mix.minPool

\* getBatch has returned a batch that leaves exactly minPool > 0 messages
C20_Witness ==
    /\ mix # NoMix
    /\ mix.minPool > 0
    /\ out.ret # <<>>
    /\ \E k \in 0..MaxShift : out.ret = getBatch(Self, mix, k)
    /\ count(Self) - Len(out.ret) = mix.minPool
----------------------------------------------------------------------------
(* ServerInfo.py: canonical text, digests and signatures.  A text is a     *)
(* sequence of characters; the field names "Digest:" and "Signature:" are  *)
(* single symbols of it, "x" stands for every other character.             *)

\* longest text
MaxText == 4

Chars == {" ", "\t", "\r", "\n", "x", "Digest:", "Signature:"}

\* RSA private keys; the public key of k is written k as well
Keys == {"k1", "k2"}
Texts == UNION {[1..n -> Chars] : n \in 0..MaxText}

\* _abnormal_line_ending_re.sub("\n", s): every \r\n? becomes \n
RECURSIVE subLineEndings(_)
subLineEndings(s) ==
    IF s = <<>> THEN <<>>
    ELSE IF Head(s) # "\r" THEN <<Head(s)>> \o subLineEndings(Tail(s))
    ELSE IF Len(s) >= 2 /\ s[2] = "\n"
         THEN <<"\n">> \o subLineEndings(Tail(Tail(s)))
         ELSE <<"\n">> \o subLineEndings(Tail(s))

\* _trailing_whitespace_re.sub("", s) on s[1..i]: [ \t]+$ with re.M, where
\* $ matches before a \n and at the end; atEnd: s[i+1..] begins so
RECURSIVE subTrailing(_, _, _)
subTrailing(s, i, atEnd) ==
    IF i = 0 THEN <<>>
    ELSE IF s[i] \in {" ", "\t"} /\ atEnd THEN subTrailing(s, i - 1, TRUE)
    ELSE Append(subTrailing(s, i - 1, s[i] = "\n"), s[i])

\* _leading_whitespace_re.sub("", s) on s[i..]: ^[ \t]+ with re.M, where
\* ^ matches at the start and after a \n; atStart: s[i] follows one
RECURSIVE subLeading(_, _, _)
subLeading(s, i, atStart) ==
    IF i > Len(s) THEN <<>>
    ELSE IF s[i] \in {" ", "\t"} /\ atStart THEN subLeading(s, i + 1, TRUE)
    ELSE <<s[i]>> \o subLeading(s, i + 1, s[i] = "\n")

\* a _cleanForDigest that appends the newline without looking
cleanForDigest_alwaysNewline(s) ==
    LET s1 == subLineEndings(s)
        s2 == subTrailing(s1, Len(s1), TRUE)
    IN  Append(subLeading(s2, 1, TRUE), "\n")

\* _cleanForDigest(s)
cleanForDigest(s) ==
    LET s1 == subLineEndings(s)
        s2 == subTrailing(s1, Len(s1), TRUE)
        s3 == subLeading(s2, 1, TRUE)
    IN  IF s3 # <<>> /\ s3[Len(s3)] = "\n" THEN s3 ELSE Append(s3, "\n")

\* mixminion.Crypto.sha1: a collision-free hash
sha1(s) == ToString(<<"sha1", s>>)

\* regex.sub(fn, info, 2) on info[i..]: each of the first two lines that
\* begin with a field name f is replaced by f followed by vals[f] (nothing
\* for replaceFn, " " and the value for replaceFn2).  atStart: info[i]
\* begins a line; skip: info[i] is in a line being replaced; n: the
\* substitutions left
RECURSIVE subSpecial(_, _, _, _, _, _)
subSpecial(info, i, atStart, skip, n, vals) ==
    IF i > Len(info) THEN <<>>
    ELSE IF skip /\ info[i] # "\n"
         THEN subSpecial(info, i + 1, FALSE, TRUE, n, vals)
    ELSE IF atStart /\ n > 0 /\ info[i] \in DOMAIN vals
         THEN <<info[i]>> \o vals[info[i]]
                 \o subSpecial(info, i + 1, FALSE, TRUE, n - 1, vals)
    ELSE <<info[i]>> \o subSpecial(info, i + 1, info[i] = "\n", FALSE, n, vals)

\* _getDigestImpl: info after _cleanForDigest and regex.sub(replaceFn, ..)
digestedText(info, fields) ==
    subSpecial(cleanForDigest(info), 1, TRUE, FALSE, 2, [f \in fields |-> <<>>])

\* _getDigestImpl(info, regex) with rsa = None
getDigestImpl(info, fields) == sha1(digestedText(info, fields))

\* mixminion.Crypto.pk_sign(digest, rsa), and formatBase64 of a value
pk_sign(digest, rsa) == ToString(<<"sig", rsa, digest>>)
formatBase64(v) == ToString(<<"base64", v>>)

\* a signServerInfo that takes the digest of the text as it was given
signServerInfo_ofRawText(info, rsa) ==
    subSpecial(digestedText(info, {"Digest:", "Signature:"}), 1, TRUE, FALSE, 2,
               [f \in {"Digest:", "Signature:"} |->
                   <<" ", formatBase64(IF f = "Digest:" THEN sha1(info)
                                       ELSE pk_sign(sha1(info), rsa))>>])

\* signServerInfo(info, rsa): _getDigestImpl with rsa given
signServerInfo(info, rsa) ==
    LET text == digestedText(info, {"Digest:", "Signature:"})
        digest == sha1(text)
    IN  subSpecial(text, 1, TRUE, FALSE, 2,
                   [f \in {"Digest:", "Signature:"} |->
                       <<" ", formatBase64(IF f = "Digest:" THEN digest
                                           ELSE pk_sign(digest, rsa))>>])

\* getServerInfoDigest(info)
getServerInfoDigest(info) == getDigestImpl(info, {"Digest:", "Signature:"})

\* the texts one step of whitespace damage makes of s: a blank put before
\* a line ending (or at the end of an unterminated last line) or one taken
\* from there, one line ending rewritten as LF, CR or CRLF, or the final
\* line ending dropped
Damaged(s) ==
    LET n == Len(s)
        Cut(i, j, r) == SubSeq(s, 1, i - 1) \o r \o SubSeq(s, j + 1, n)
        Ending(i) == \/ s[i] = "\r"
                     \/ s[i] = "\n" /\ (i = 1 \/ s[i - 1] # "\r")
        AtEnd(i) == IF i > n THEN n = 0 \/ s[n] \notin {"\r", "\n"}
                    ELSE Ending(i)
        Last(i) == IF s[i] = "\r" /\ i < n /\ s[i + 1] = "\n" THEN i + 1 ELSE i
    IN  {t \in
           {Cut(i, i - 1, <<c>>) : i \in {j \in 1..(n + 1) : AtEnd(j)},
                                   c \in {" ", "\t"}}
           \cup {Cut(i, i, <<>>) :
                   i \in {j \in 1..n : s[j] \in {" ", "\t"} /\ AtEnd(j + 1)}}
           \cup {Cut(i, Last(i), e) :
                   i \in {j \in 1..n : Ending(j)},
                   e \in {<<"\n">>, <<"\r">>, <<"\r", "\n">>}}
           \cup {Cut(i, n, <<>>) :
                   i \in {j \in 1..n : Ending(j) /\ Last(j) = n}} :
         Len(t) <= MaxText /\ t # s}

TextInit ==
    /\ files = EmptyDict
    /\ n_entries = -1
    /\ renames = {}
    /\ retrySchedule = NoSchedule
    /\ sendable = <<>>
    /\ pending = EmptyDict
    /\ deliveryState = EmptyDict
    /\ nextAttempt = EmptyDict
    /\ out = NoOut
    /\ drawn = 0
    /\ opened = {}
    /\ other = NoQueue
    /\ mix = NoMix
    /\ input \in Texts
    /\ lifetime = NoLifetime
    /\ scrub = NoScrub
    /\ lock = NoLock

\* _cleanForDigest(input) is called
CleanForDigest ==
    /\ out' = [batch |-> <<>>, raised |-> FALSE, ret |-> cleanForDigest(input)]
    /\ UNCHANGED <<files, n_entries, renames, retrySchedule, sendable, pending,
                   deliveryState, nextAttempt, drawn, opened, other, mix, input, lifetime, scrub, lock>>

\* getServerInfoDigest(input) is called
GetServerInfoDigest ==
    /\ out' = [batch |-> <<>>, raised |-> FALSE,
               ret |-> <<getServerInfoDigest(input)>>]
    /\ UNCHANGED <<files, n_entries, renames, retrySchedule, sendable, pending,
                   deliveryState, nextAttempt, drawn, opened, other, mix, input, lifetime, scrub, lock>>

\* signServerInfo(input, rsa) is called
SignServerInfo(rsa) ==
    /\ out' = [batch |-> <<>>, raised |-> FALSE,
               ret |-> signServerInfo(input, rsa)]
    /\ UNCHANGED <<files, n_entries, renames, retrySchedule, sendable, pending,
                   deliveryState, nextAttempt, drawn, opened, other, mix, input, lifetime, scrub, lock>>

\* the text suffers whitespace damage in transport
Damage ==
    /\ input' \in Damaged(input)
    /\ UNCHANGED <<files, n_entries, renames, retrySchedule, sendable, pending,
                   deliveryState, nextAttempt, out, drawn, opened, other, mix, lifetime, scrub, lock>>

TextNext ==
    \/ CleanForDigest
    \/ GetServerInfoDigest
    \/ \E rsa \in Keys : SignServerInfo(rsa)
    \/ Damage

TextSpec == TextInit /\ [][TextNext]_vars

\* C21: the canonicalizer is idempotent: cleaning a cleaned text changes
\* nothing, for every text over space, tab, CR, LF and other characters.
C21_CleanIsIdempotent ==
    cleanForDigest(cleanForDigest(input)) = cleanForDigest(input)

\* a text with a CR, leading and trailing whitespace has been cleaned
C21_Witness ==
    /\ input = <<" ", "x", "\t", "\r">>
    /\ out.ret = <<"x", "\n">>

\* C22: the canonicalizer's output holds no CR, no line of it begins or
\* ends with a space or tab, and it ends with exactly one LF.
C22_CleanIsCanonical ==
    LET c == cleanForDigest(input)
        n == Len(c)
    IN  /\ \A i \in 1..n : c[i] # "\r"
        /\ \A i \in 1..n :
              c[i] \in {" ", "\t"} =>
                  /\ i > 1 /\ c[i - 1] # "\n"
                  /\ i < n /\ c[i + 1] # "\n"
        /\ n >= 1 /\ c[n] = "\n"
        /\ n >= 2 => c[n - 1] # "\n"
\* C23: the digest of a descriptor text does not change when trailing
\* whitespace is put on or taken from lines, when a line ending is
\* rewritten among LF, CR and CRLF, or when the final newline is dropped.
C23_DigestSurvivesDamage ==
    [][Damage => getServerInfoDigest(input') = getServerInfoDigest(input)]_vars
----------------------------------------------------------------------------
\* C24: for a well-formed descriptor text d (one empty Digest: line and
\* one empty Signature: line) and every key sk, the text
\* signServerInfo(d, sk) returns carries in its Digest field the digest
\* computed from that signed text, which is the digest of canon(d); its
\* Signature field is that digest signed with sk; and it differs from
\* canon(d) in those two lines only.
C24_SignedTextVerifies ==
    LET HasField(t, f, v) ==
            \E i \in 1..(Len(t) - 2) :
                /\ i = 1 \/ t[i - 1] = "\n"
                /\ t[i] = f /\ t[i + 1] = " " /\ t[i + 2] = v
                /\ i + 3 <= Len(t) => t[i + 3] = "\n"
        c == cleanForDigest(input)
        WellFormed ==
            \A f \in {"Digest:", "Signature:"} :
                /\ Cardinality({i \in 1..Len(c) : c[i] = f}) = 1
                /\ \E i \in 1..(Len(c) - 1) :
                      c[i] = f /\ c[i + 1] = "\n" /\ (i = 1 \/ c[i - 1] = "\n")
    IN  \A sk \in Keys :
            WellFormed =>
                LET signed == signServerInfo(input, sk)
                    digest == getServerInfoDigest(signed)
                IN  /\ HasField(signed, "Digest:", formatBase64(digest))
                    /\ digest = getServerInfoDigest(c)
                    /\ HasField(signed, "Signature:",
                                formatBase64(pk_sign(digest, sk)))
                    /\ digestedText(signed, {"Digest:", "Signature:"}) = c

\* a well-formed text that was not canonical has been signed
C24_Witness ==
    /\ input = <<"Signature:", "\t", "\r", "Digest:">>
    /\ \E sk \in Keys : out.ret = signServerInfo(input, sk)

\* ---------------------------------------------------------------------
\* ServerInfo: a parsed server descriptor and its validation
\* ---------------------------------------------------------------------

MAX_CONTACT == 256
MAX_COMMENTS == 1024
MAX_FINGERPRINT == 128
MIN_IDENTITY_BYTES == 256
MAX_IDENTITY_BYTES == 512
PACKET_KEY_BYTES == 256
DIGEST_LEN == 20

\* None in a field whose values are texts
NoneText == "None"

\* the texts descriptors are read from, and their digests
DescriptorTexts == {<<"x", "\n">>, <<"x", "\r", "\n">>, <<"x", "x", "\n">>}
Digests == {getServerInfoDigest(c) : c \in DescriptorTexts}

\* pk_check_signature(sig, key): the digest that was signed with key, or
\* CryptoError
pk_check_signature(sig, key) ==
    IF \E dg \in Digests : sig = pk_sign(dg, key)
    THEN CHOOSE dg \in Digests : sig = pk_sign(dg, key)
    ELSE "CryptoError"

\* a descriptor as the configuration parser hands it over: the sections
\* with their typed values (keys and texts by their lengths where only
\* the length is looked at), and the text it was read from.  The dates
\* of the descriptors are even numbers and time runs over all numbers,
\* so that there is a time between any two dates.
GoodServer ==
    [contents |-> <<"x", "\n">>,
     sections |->
       ("Server" :>
          ("Descriptor-Version" :> "0.2" @@ "Nickname" :> "A" @@
           "Identity" :> [key |-> "k1", modulus_bytes |-> 256] @@
           "Digest" :> getServerInfoDigest(<<"x", "\n">>) @@
           "Signature" :> pk_sign(getServerInfoDigest(<<"x", "\n">>), "k1") @@
           "Published" :> 600 @@ "Valid-After" :> 0 @@ "Valid-Until" :> 2 @@
           "Contact" :> 0 @@ "Comments" :> 0 @@ "Contact-Fingerprint" :> 0 @@
           "Packet-Key" :> [key |-> "k3", modulus_bytes |-> 256])) @@
       ("Incoming/MMTP" :>
          ("Version" :> "0.1" @@ "IP" :> "1.2.3.4" @@ "Hostname" :> "host" @@
           "Port" :> 48099 @@ "Key-Digest" :> DIGEST_LEN @@
           "Protocols" :> "0.3")) @@
       ("Outgoing/MMTP" :> ("Version" :> "0.1" @@ "Protocols" :> "0.3"))]

\* the values a key of a section is given in the descriptors of the model
Values(sec, key) ==
    CASE key = "Descriptor-Version" -> {"0.2", "0.3"}
      [] key = "Nickname" -> {"A", "a", "B"}
      [] key = "Identity" ->
            {[key |-> "k1", modulus_bytes |-> b] : b \in {255, 256, 512, 513}}
      [] key = "Digest" -> Digests
      [] key = "Signature" ->
            {pk_sign(dg, k) : dg \in Digests, k \in Keys} \cup {"garbage"}
      [] key = "Published" -> {0, 1, 600, 601}
      [] key \in {"Valid-After", "Valid-Until"} -> {0, 2, 4}
      [] key = "Contact" -> {0, MAX_CONTACT, MAX_CONTACT + 1}
      [] key = "Comments" -> {0, MAX_COMMENTS, MAX_COMMENTS + 1}
      [] key = "Contact-Fingerprint" -> {0, MAX_FINGERPRINT, MAX_FINGERPRINT + 1}
      [] key = "Packet-Key" ->
            {[key |-> "k3", modulus_bytes |-> b] : b \in {255, 256, 257}}
      [] key = "Version" -> {"0.1", "0.2"}
      [] key = "IP" -> {NoneText, "1.2.3.4"}
      [] key = "Hostname" -> {NoneText, "host"}
      [] key = "Port" -> {48099}
      [] key = "Key-Digest" -> {None, DIGEST_LEN - 1, DIGEST_LEN}
      [] key = "Protocols" -> {"0.3", "0.4"}

\* the descriptors that differ from one of D in at most one key, in the
\* text, or in lacking an MMTP section
Vary(D) ==
    UNION {
        {d} \cup
        {[d EXCEPT !.contents = c] : c \in DescriptorTexts} \cup
        {[d EXCEPT !.sections = [sec \in DOMAIN d.sections \ {gone} |->
                                     d.sections[sec]]] :
             gone \in {"Incoming/MMTP", "Outgoing/MMTP"}} \cup
        UNION {UNION {{[d EXCEPT !.sections[sec][key] = v] :
                           v \in Values(sec, key)} :
                      key \in DOMAIN d.sections[sec]} :
               sec \in DOMAIN d.sections}
        : d \in D}

Descriptors == Vary(Vary({GoodServer}))

\* self[sec]: the section, or None (here the empty section, which is
\* false as None is) when the descriptor has no such section
Section(d, sec) ==
    IF sec \in DOMAIN d.sections THEN d.sections[sec] ELSE <<>>

\* ServerInfo.prevalidate: an unknown descriptor version is an error;
\* the sections with an unrecognized version are dropped
prevalidate(d) ==
    IF d.sections["Server"]["Descriptor-Version"] # "0.2"
    THEN [error |-> "ConfigError", d |-> d]
    ELSE [error |-> "",
          d |-> [d EXCEPT !.sections =
                    [sec \in {x \in DOMAIN d.sections :
                                 x = "Server" \/ d.sections[x]["Version"] = "0.1"}
                        |-> d.sections[sec]]]]

\* a validate that does not look at the signature
validate_unsigned(d, validatedDigests, now) ==
    LET server == Section(d, "Server")
        digest == getServerInfoDigest(d.contents)
        identityKey == server["Identity"]
        signedDigest == pk_check_signature(server["Signature"], identityKey.key)
        inMMTP == Section(d, "Incoming/MMTP")
        outMMTP == Section(d, "Outgoing/MMTP")
        raise(kind) == [error |-> kind, _isValidated |-> 0]
    IN  IF server["Descriptor-Version"] # "0.2" THEN raise("ConfigError")
        ELSE IF digest # server["Digest"] THEN raise("ConfigError")
        ELSE IF validatedDigests # {} /\ digest \in validatedDigests
             THEN [error |-> "", _isValidated |-> 1]
        ELSE IF ~ (/\ MIN_IDENTITY_BYTES <= identityKey.modulus_bytes
                   /\ identityKey.modulus_bytes <= MAX_IDENTITY_BYTES)
             THEN raise("ConfigError")
        ELSE IF server["Published"] > now + 600 THEN raise("ConfigError")
        ELSE IF server["Valid-Until"] <= server["Valid-After"]
             THEN raise("ConfigError")
        ELSE IF server["Contact"] > MAX_CONTACT THEN raise("ConfigError")
        ELSE IF server["Comments"] > MAX_COMMENTS THEN raise("ConfigError")
        ELSE IF server["Contact-Fingerprint"] > MAX_FINGERPRINT
             THEN raise("ConfigError")
        ELSE IF server["Packet-Key"].modulus_bytes # PACKET_KEY_BYTES
             THEN raise("ConfigError")
        ELSE IF inMMTP # <<>> /\ inMMTP["Version"] # "0.1"
             THEN raise("ConfigError")
        ELSE IF inMMTP # <<>> /\ inMMTP["Key-Digest"] = None
             THEN raise("TypeError")
        ELSE IF inMMTP # <<>> /\ inMMTP["Key-Digest"] # DIGEST_LEN
             THEN raise("ConfigError")
        ELSE IF /\ inMMTP # <<>>
                /\ inMMTP["IP"] = NoneText /\ inMMTP["Hostname"] = NoneText
             THEN raise("ConfigError")
        ELSE IF outMMTP # <<>> /\ outMMTP["Version"] # "0.1"
             THEN raise("ConfigError")
        ELSE [error |-> "", _isValidated |-> 1]

\* ServerInfo.validate with self._validatedDigests = validatedDigests at
\* time now: the error raised ("" when none is) and self._isValidated
validate(d, validatedDigests, now) ==
    LET server == Section(d, "Server")
        digest == getServerInfoDigest(d.contents)
        identityKey == server["Identity"]
        signedDigest == pk_check_signature(server["Signature"], identityKey.key)
        inMMTP == Section(d, "Incoming/MMTP")
        outMMTP == Section(d, "Outgoing/MMTP")
        raise(kind) == [error |-> kind, _isValidated |-> 0]
    IN  IF server["Descriptor-Version"] # "0.2" THEN raise("ConfigError")
        ELSE IF digest # server["Digest"] THEN raise("ConfigError")
        ELSE IF validatedDigests # {} /\ digest \in validatedDigests
             THEN [error |-> "", _isValidated |-> 1]
        ELSE IF ~ (/\ MIN_IDENTITY_BYTES <= identityKey.modulus_bytes
                   /\ identityKey.modulus_bytes <= MAX_IDENTITY_BYTES)
             THEN raise("ConfigError")
        ELSE IF server["Published"] > now + 600 THEN raise("ConfigError")
        ELSE IF server["Valid-Until"] <= server["Valid-After"]
             THEN raise("ConfigError")
        ELSE IF server["Contact"] > MAX_CONTACT THEN raise("ConfigError")
        ELSE IF server["Comments"] > MAX_COMMENTS THEN raise("ConfigError")
        ELSE IF server["Contact-Fingerprint"] > MAX_FINGERPRINT
             THEN raise("ConfigError")
        ELSE IF server["Packet-Key"].modulus_bytes # PACKET_KEY_BYTES
             THEN raise("ConfigError")
        ELSE IF signedDigest = "CryptoError" THEN raise("ConfigError")
        ELSE IF digest # signedDigest THEN raise("ConfigError")
        ELSE IF inMMTP # <<>> /\ inMMTP["Version"] # "0.1"
             THEN raise("ConfigError")
        ELSE IF inMMTP # <<>> /\ inMMTP["Key-Digest"] = None
             THEN raise("TypeError")
        ELSE IF inMMTP # <<>> /\ inMMTP["Key-Digest"] # DIGEST_LEN
             THEN raise("ConfigError")
        ELSE IF /\ inMMTP # <<>>
                /\ inMMTP["IP"] = NoneText /\ inMMTP["Hostname"] = NoneText
             THEN raise("ConfigError")
        ELSE IF outMMTP # <<>> /\ outMMTP["Version"] # "0.1"
             THEN raise("ConfigError")
        ELSE [error |-> "", _isValidated |-> 1]

\* ServerInfo(...) were the dict of validated digests never consulted
ServerInfo_noCache(d, assumeValid, validatedDigests, now) ==
    LET pre == prevalidate(d)
        val == validate(pre.d, {}, now)
    IN  IF pre.error # "" THEN [error |-> pre.error]
        ELSE IF assumeValid
             THEN [error |-> "", sections |-> pre.d.sections, _isValidated |-> 0]
        ELSE IF val.error # "" THEN [error |-> val.error]
        ELSE [error |-> "", sections |-> pre.d.sections,
              _isValidated |-> val._isValidated]

\* ServerInfo(string, assumeValid, validatedDigests) at time now: the
\* parser prevalidates, builds the sections and, unless assumeValid,
\* validates; the value is the error raised or the object built
ServerInfo(d, assumeValid, validatedDigests, now) ==
    LET pre == prevalidate(d)
        val == validate(pre.d, validatedDigests, now)
    IN  IF pre.error # "" THEN [error |-> pre.error]
        ELSE IF assumeValid
             THEN [error |-> "", sections |-> pre.d.sections, _isValidated |-> 0]
        ELSE IF val.error # "" THEN [error |-> val.error]
        ELSE [error |-> "", sections |-> pre.d.sections,
              _isValidated |-> val._isValidated]

\* str.lower() on the nicknames of the model
lower(name) == IF name = "A" THEN "a" ELSE IF name = "B" THEN "b" ELSE name

\* IntervalSet([(start, end)]): the times from start up to, not
\* including, end
IntervalSet(start, end) == start..(end - 1)

\* ServerInfo.isNewerThan(other) for a ServerInfo other
isNewerThan(self, o) ==
    self.sections["Server"]["Published"] > o.sections["Server"]["Published"]

\* ServerInfo.getIntervalSet
getIntervalSet(self) ==
    IntervalSet(self.sections["Server"]["Valid-After"],
                self.sections["Server"]["Valid-Until"])

\* ServerInfo.isSupersededBy, were the publication times not compared
isSupersededBy_anyPublished(self, others) ==
    getIntervalSet(self) \
        UNION {getIntervalSet(others[i]) :
                 i \in {k \in 1..Len(others) :
                          lower(others[k].sections["Server"]["Nickname"]) =
                            lower(self.sections["Server"]["Nickname"])}}
    = {}

\* ServerInfo.isSupersededBy(others)
isSupersededBy(self, others) ==
    getIntervalSet(self) \
        UNION {getIntervalSet(others[i]) :
                 i \in {k \in 1..Len(others) :
                          /\ isNewerThan(others[k], self)
                          /\ lower(others[k].sections["Server"]["Nickname"]) =
                               lower(self.sections["Server"]["Nickname"])}}
    = {}

\* ServerInfo.canRelayTo(otherDesc); Protocols names one protocol
canRelayTo(self, otherDesc) ==
    \/ lower(self.sections["Server"]["Nickname"]) =
         lower(otherDesc.sections["Server"]["Nickname"])
    \/ self.sections["Outgoing/MMTP"]["Protocols"] =
         otherDesc.sections["Incoming/MMTP"]["Protocols"]

\* ServerInfo.getMMTPHostInfo: `get` is no name of the module, so that
\* evaluating get.getHostname() raises NameError
getMMTPHostInfo(self) == [error |-> "NameError"]

\* ServerInfo.getRoutingFor(otherDesc, swap); an info object packs to
\* the tuple of its kind, host, port and key digest
getRoutingFor(self, otherDesc, swap) ==
    LET getHostname(d) == d.sections["Incoming/MMTP"]["Hostname"]
        getIPV4Info(d) ==
            <<"IPV4Info", d.sections["Incoming/MMTP"]["IP"],
              d.sections["Incoming/MMTP"]["Port"],
              sha1(d.sections["Server"]["Identity"].key)>>
    IN  IF ~ canRelayTo(self, otherDesc) \/ ~ (0 <= swap /\ swap <= 1)
        THEN [error |-> "AssertionError"]
        ELSE IF getHostname(self) # NoneText /\ getHostname(otherDesc) # NoneText
        THEN IF getMMTPHostInfo(otherDesc).error # ""
             THEN [error |-> getMMTPHostInfo(otherDesc).error]
             ELSE [error |-> "",
                   value |-> <<<<"FWD_HOST_TYPE", "SWAP_FWD_HOST_TYPE">>[swap + 1],
                               getMMTPHostInfo(otherDesc).value>>]
        ELSE [error |-> "",
              value |-> <<<<"FWD_IPV4_TYPE", "SWAP_FWD_IPV4_TYPE">>[swap + 1],
                          getIPV4Info(otherDesc)>>]

\* ServerDirectory.__init__, were the nicknames compared as they are
\* written
ServerDirectory_asWritten(header, servercontents, validatedDigests, now) ==
    LET strip(name) == IF name = " a " THEN "a" ELSE name
        recommended == header.Directory["Recommended-Servers"]
        goodServerNames ==
            [i \in 1..Len(recommended) |-> lower(strip(recommended[i]))]
        servers ==
            [i \in 1..Len(servercontents) |->
                ServerInfo(servercontents[i], FALSE, validatedDigests, now)]
        failed == {i \in 1..Len(servers) : servers[i].error # ""}
        good(s) == \E j \in 1..Len(goodServerNames) :
                       goodServerNames[j] = s.sections["Server"]["Nickname"]
    IN  IF ~ header.valid THEN [error |-> "ConfigError"]
        ELSE IF failed # {}
        THEN [error |-> servers[CHOOSE i \in failed :
                                   \A j \in failed : i <= j].error]
        ELSE [error |-> "", allServers |-> servers,
              servers |-> SelectSeq(servers, good),
              goodServerNames |-> goodServerNames]

\* ServerDirectory.__init__ on a text that splits into the header and the
\* descriptors servercontents; header.valid tells whether _DirectoryHeader
\* accepts the header, and Recommended-Servers is given as the list that
\* split(",") makes of it
ServerDirectory(header, servercontents, validatedDigests, now) ==
    LET strip(name) == IF name = " a " THEN "a" ELSE name
        recommended == header.Directory["Recommended-Servers"]
        goodServerNames ==
            [i \in 1..Len(recommended) |-> lower(strip(recommended[i]))]
        servers ==
            [i \in 1..Len(servercontents) |->
                ServerInfo(servercontents[i], FALSE, validatedDigests, now)]
        failed == {i \in 1..Len(servers) : servers[i].error # ""}
        good(s) == \E j \in 1..Len(goodServerNames) :
                       goodServerNames[j] = lower(s.sections["Server"]["Nickname"])
    IN  IF ~ header.valid THEN [error |-> "ConfigError"]
        ELSE IF failed # {}
        THEN [error |-> servers[CHOOSE i \in failed :
                                   \A j \in failed : i <= j].error]
        ELSE [error |-> "", allServers |-> servers,
              servers |-> SelectSeq(servers, good),
              goodServerNames |-> goodServerNames]

\* a directory header that recommends nobody
NoHeader ==
    [valid |-> TRUE, Directory |-> ("Recommended-Servers" :> <<>>)]

MaxOthers == 2

\* valid descriptors that differ in nickname, publication time and
\* validity interval
Published(nicknames, intervals) ==
    {[GoodServer EXCEPT !.sections["Server"] =
          [@ EXCEPT !["Nickname"] = n, !["Published"] = p,
                    !["Valid-After"] = v[1], !["Valid-Until"] = v[2]]] :
        n \in nicknames, p \in {0, 1}, v \in intervals}

\* the descriptors at hand: self, and the others it is compared with or
\* that stand with it in a directory under a header
Inputs ==
    {[self |-> d, others |-> <<>>, header |-> NoHeader] : d \in Descriptors}
    \cup
    {[self |-> d, others |-> S, header |-> NoHeader] :
        d \in Published({"A"}, {<<0, 2>>, <<0, 4>>}),
        S \in UNION {[1..n -> Published({"a", "B"}, {<<0, 2>>, <<2, 4>>})] :
                       n \in 0..MaxOthers}}
    \cup
    LET Relays ==
          {[GoodServer EXCEPT !.sections["Server"]["Nickname"] = n,
                              !.sections["Incoming/MMTP"]["Hostname"] = h,
                              !.sections["Incoming/MMTP"]["Protocols"] = i,
                              !.sections["Outgoing/MMTP"]["Protocols"] = o] :
              n \in {"A", "a", "B"}, h \in Values("Incoming/MMTP", "Hostname"),
              i \in Values("Incoming/MMTP", "Protocols"),
              o \in Values("Outgoing/MMTP", "Protocols")}
    IN  {[self |-> d, others |-> <<o>>, header |-> NoHeader] :
            d \in Relays, o \in Relays}
    \cup
    LET Embedded ==
          {[GoodServer EXCEPT !.sections["Server"]["Nickname"] = n] :
              n \in {"A", "a", "B"}}
          \cup {[GoodServer EXCEPT !.sections["Server"]["Signature"] = "garbage"]}
    IN  {[self |-> GoodServer, others |-> S,
          header |-> [valid |-> v, Directory |-> ("Recommended-Servers" :> r)]] :
            S \in UNION {[1..n -> Embedded] : n \in 0..MaxOthers},
            v \in BOOLEAN,
            r \in UNION {[1..n -> {"A", " a ", "b"}] : n \in 0..2}}

InfoInit ==
    /\ files = <<>> /\ n_entries = 0 /\ renames = <<>>
    /\ retrySchedule = NoSchedule /\ sendable = <<>> /\ pending = <<>>
    /\ deliveryState = <<>> /\ nextAttempt = <<>> /\ drawn = <<>>
    /\ opened = <<>> /\ other = NoQueue /\ mix = NoMix
    /\ out = NoOut
    /\ input \in Inputs
    /\ lifetime = NoLifetime
    /\ scrub = NoScrub
    /\ lock = NoLock

\* ServerInfo(string=..., assumeValid, validatedDigests) is called at
\* wall-clock time now
ParseServerInfo(assumeValid, validatedDigests, now) ==
    LET r == ServerInfo(input.self, assumeValid, validatedDigests, now)
    IN  /\ out' = [batch |-> <<>>, raised |-> r.error # "", ret |-> <<r>>]
        /\ UNCHANGED <<files, n_entries, renames, retrySchedule, sendable,
                       pending, deliveryState, nextAttempt, drawn, opened,
                       other, mix, input, lifetime, scrub, lock>>

\* self.isSupersededBy(others) is called.  What a call on a ServerInfo
\* comes to is recorded as the error raised ("" when none is) and the
\* value returned.
IsSupersededBy ==
    /\ out' = [batch |-> <<>>, raised |-> FALSE,
               ret |-> <<[error |-> "",
                          value |-> isSupersededBy(input.self, input.others)]>>]
    /\ UNCHANGED <<files, n_entries, renames, retrySchedule, sendable,
                   pending, deliveryState, nextAttempt, drawn, opened,
                   other, mix, input, lifetime, scrub, lock>>

\* self.getRoutingFor(others[0], swap) is called
GetRoutingFor(swap) ==
    /\ input.others # <<>>
    /\ LET r == getRoutingFor(input.self, input.others[1], swap)
       IN  out' = [batch |-> <<>>, raised |-> r.error # "", ret |-> <<r>>]
    /\ UNCHANGED <<files, n_entries, renames, retrySchedule, sendable,
                   pending, deliveryState, nextAttempt, drawn, opened,
                   other, mix, input, lifetime, scrub, lock>>

\* ServerDirectory(string=..., validatedDigests) is called at wall-clock
\* time now on the directory of input.header and input.others
ParseServerDirectory(validatedDigests, now) ==
    LET r == ServerDirectory(input.header, input.others, validatedDigests, now)
    IN  /\ out' = [batch |-> <<>>, raised |-> r.error # "", ret |-> <<r>>]
        /\ UNCHANGED <<files, n_entries, renames, retrySchedule, sendable,
                       pending, deliveryState, nextAttempt, drawn, opened,
                       other, mix, input, lifetime, scrub, lock>>

InfoNext ==
    \/ IsSupersededBy
    \/ \E validatedDigests \in {{}, Digests}, now \in {0, 1} :
           ParseServerDirectory(validatedDigests, now)
    \/ \E swap \in {0, 1} : GetRoutingFor(swap)
    \/ \E assumeValid \in BOOLEAN, validatedDigests \in {{}, Digests},
          now \in {0, 1} :
           ParseServerInfo(assumeValid, validatedDigests, now)

InfoSpec == InfoInit /\ [][InfoNext]_vars

\* ---------------------------------------------------------------------
\* C25
\* ---------------------------------------------------------------------

C26_OnlyConfigErrorEscapes ==
    \A assumeValid \in BOOLEAN, validatedDigests \in SUBSET Digests,
       now \in {0, 1} :
        LET r == ServerInfo(input.self, assumeValid, validatedDigests, now)
        IN  \/ r.error = "ConfigError" /\ DOMAIN r = {"error"}
            \/ r.error = "" /\ r._isValidated \in {0, 1}

\* ---------------------------------------------------------------------
\* C27
\* ---------------------------------------------------------------------

\* C27: for a valid descriptor d and valid descriptors S,
\* d.isSupersededBy(S) is true exactly if every time from d's Valid-After
\* to d's Valid-Until lies between the Valid-After and the Valid-Until of
\* some descriptor of S with d's nickname, cases ignored, and a Published
\* time greater than d's.
C27_SupersededIffCovered ==
    LET Server(x) == x.sections["Server"]
        d == Server(input.self)
        S == input.others
        valid(x) == Server(x)["Valid-Until"] > Server(x)["Valid-After"]
    IN  valid(input.self) /\ (\A i \in 1..Len(S) : valid(S[i])) =>
          ( isSupersededBy(input.self, S)
            <=> \A t \in d["Valid-After"]..d["Valid-Until"] :
                  \E i \in 1..Len(S) :
                     /\ lower(Server(S[i])["Nickname"]) = lower(d["Nickname"])
                     /\ Server(S[i])["Published"] > d["Published"]
                     /\ Server(S[i])["Valid-After"] <= t
                     /\ t <= Server(S[i])["Valid-Until"] )

\* a descriptor valid from 0 to 4 was found superseded by two newer ones
\* valid from 0 to 2 and from 2 to 4, one of them under the nickname in
\* another case
C27_Witness ==
    /\ Len(input.others) = 2
    /\ input.self.sections["Server"]["Valid-Until"] = 4
    /\ input.others[1].sections["Server"]["Valid-Until"] = 2
    /\ input.others[2].sections["Server"]["Valid-After"] = 2
    /\ input.others[2].sections["Server"]["Nickname"] = "a"
    /\ out.ret = <<[error |-> "", value |-> TRUE]>>

\* ---------------------------------------------------------------------
\* C28
\* ---------------------------------------------------------------------

\* C28: when self.canRelayTo(other) and swap is 0 or 1,
\* self.getRoutingFor(other, swap) returns a value and raises nothing: if
\* both have a Hostname, the FWD_HOST type (SWAP_FWD_HOST when swap) with
\* the packed host info of other's hostname, port and key digest;
\* otherwise the FWD_IPV4 type (SWAP_FWD_IPV4) with other's packed IPv4
\* info.
C28_RoutingIsReturned ==
    \A swap \in {0, 1} :
         input.others # <<>> /\ canRelayTo(input.self, input.others[1]) =>
           LET otherDesc == input.others[1]
               inc(d) == d.sections["Incoming/MMTP"]
               keyDigest == sha1(otherDesc.sections["Server"]["Identity"].key)
           IN  getRoutingFor(input.self, otherDesc, swap) =
                    [error |-> "",
                     value |->
                       IF inc(input.self)["Hostname"] # NoneText
                          /\ inc(otherDesc)["Hostname"] # NoneText
                       THEN <<IF swap = 1 THEN "SWAP_FWD_HOST_TYPE"
                                          ELSE "FWD_HOST_TYPE",
                              <<"MMTPHostInfo", inc(otherDesc)["Hostname"],
                                inc(otherDesc)["Port"], keyDigest>> >>
                       ELSE <<IF swap = 1 THEN "SWAP_FWD_IPV4_TYPE"
                                          ELSE "FWD_IPV4_TYPE",
                              <<"IPV4Info", inc(otherDesc)["IP"],
                                inc(otherDesc)["Port"], keyDigest>> >>]

\* ---------------------------------------------------------------------
\* C29
\* ---------------------------------------------------------------------

\* C29: for a valid directory (the header and every embedded descriptor
\* pass validation), allServers holds every embedded descriptor in the
\* order of the directory, servers is the subsequence of those whose
\* lower-cased nickname is in the lower-cased, trimmed Recommended-Servers
\* list, and the recommended nicknames are that list.
C29_DirectoryLists ==
    \A validatedDigests \in SUBSET Digests, now \in {0, 1} :
        LET embedded == input.others
            listed == input.header.Directory["Recommended-Servers"]
            norm(name) == CASE name \in {"A", " a ", "a"} -> "a"
                            [] name \in {"B", "b"} -> "b"
            names == [i \in 1..Len(listed) |-> norm(listed[i])]
            nick(d) == d.sections["Server"]["Nickname"]
            kept == {i \in 1..Len(embedded) :
                       \E j \in 1..Len(names) : names[j] = norm(nick(embedded[i]))}
            r == ServerDirectory(input.header, embedded, validatedDigests, now)
        IN  /\ input.header.valid
            /\ \A i \in 1..Len(embedded) :
                 ServerInfo(embedded[i], FALSE, {}, now).error = ""
            => /\ r.error = ""
               /\ Len(r.allServers) = Len(embedded)
               /\ \A i \in 1..Len(embedded) :
                    /\ r.allServers[i].sections = embedded[i].sections
                    /\ r.allServers[i]._isValidated = 1
               /\ Len(r.servers) = Cardinality(kept)
               /\ \A i \in kept :
                    r.servers[Cardinality({k \in kept : k <= i})] = r.allServers[i]
               /\ r.goodServerNames = names

\* the directory of A and B that recommends A has been read: servers is
\* [A], allServers is [A, B] and the recommended nicknames are ["a"]
C29_Witness ==
    /\ Len(input.others) = 2
    /\ input.others[1].sections["Server"]["Nickname"] = "A"
    /\ input.others[2].sections["Server"]["Nickname"] = "B"
    /\ input.header.valid
    /\ input.header.Directory["Recommended-Servers"] = <<"A">>
    /\ \E now \in {0, 1} :
          LET A == ServerInfo(input.others[1], FALSE, {}, now)
              B == ServerInfo(input.others[2], FALSE, {}, now)
          IN  out.ret = <<[error |-> "", allServers |-> <<A, B>>,
                           servers |-> <<A>>, goodServerNames |-> <<"a">>]>>

\* ---------------------------------------------------------------------
\* C30
\* ---------------------------------------------------------------------

\* C30: after the construction and after every operation of the
\* DeliveryQueue the assertions of _repOk hold: every msg_ handle of the
\* directory is exactly once in pending.keys() + sendable, which holds
\* nothing else, and deliveryState and nextAttempt have exactly those
\* handles as keys.
C30_RepOkHolds ==
    LET all == WithPrefix(files, "msg")
    IN  /\ \A h \in all :
             Cardinality({i \in 1..Len(sendable) : sendable[i] = h})
               + (IF h \in DOMAIN pending THEN 1 ELSE 0) = 1
        /\ \A i \in 1..Len(sendable) : sendable[i] \in all
        /\ DOMAIN pending \subseteq all
        /\ DOMAIN deliveryState = all
        /\ DOMAIN nextAttempt = all

\* one message is pending and another is sendable again after a failed
\* delivery
C30_Witness ==
    /\ DOMAIN pending # {}
    /\ sendable # <<>>
    /\ \E h \in DOMAIN deliveryState : deliveryState[h].lastAttempt # None

\* ---------------------------------------------------------------------
\* C31
\* ---------------------------------------------------------------------

\* the delivery queue with every operation of Next, as the specification
\* of the hand-out of messages by sendReadyMessages and of their return
\* by deliveryFailed
DeliverySpec == Init /\ [][Next]_vars

\* C31: no handle is in sendable and in pending at once; what
\* sendReadyMessages hands to _deliverMessages holds no handle twice and
\* no handle that is pending, that is, handed out before and not yet
\* answered, and all of it is pending afterwards together with what was
\* pending before, so that the batches of the deliveries under way are
\* disjoint; a pending handle comes back to sendable only by
\* deliveryFailed with retriable for that handle.
C31_HandedOutOnce ==
    /\ \A i \in 1..Len(sendable) : sendable[i] \notin DOMAIN pending
    /\ \A now \in NowArgs, tt \in WallTimes :
          LET r == sendReadyMessages(Self, now, tt)
              batch == handedOut(Self, now, tt)
          IN  /\ \A i \in 1..Len(batch) :
                    /\ batch[i] \notin DOMAIN pending
                    /\ batch[i] \in DOMAIN r.q.pending
                    /\ \A j \in 1..Len(batch) : batch[i] = batch[j] => i = j
              /\ DOMAIN pending \subseteq DOMAIN r.q.pending
              /\ \A i \in 1..Len(r.q.sendable) :
                    r.q.sendable[i] \notin DOMAIN r.q.pending
    /\ \A h \in DOMAIN pending, g \in Handles, retriable \in BOOLEAN,
          tt \in WallTimes :
          LET q == deliveryFailed(Self, g, retriable, None, tt)
          IN  (\E i \in 1..Len(q.sendable) : q.sendable[i] = h)
                 => g = h /\ retriable /\ h \notin DOMAIN q.pending

\* a handle that failed and went back to sendable has been handed out a
\* second time while the other handle of its first batch is pending still
C31_Witness ==
    /\ Len(out.batch) = 1
    /\ deliveryState[out.batch[1]].lastAttempt # None
    /\ \E h \in DOMAIN pending :
          h # out.batch[1] /\ pending[h] < pending[out.batch[1]]

\* ---------------------------------------------------------------------
\* C32
\* ---------------------------------------------------------------------

\* C32: sendReadyMessages(now) gives every handle of sendable exactly one
\* outcome: removed when its nextAttempt is None; pending with the time
\* now and in the batch when its nextAttempt is now or earlier; in
\* sendable still otherwise.  What was pending stays pending with its
\* time, and _deliverMessages gets exactly the ready handles, in the order
\* of sendable, their messages being on disk as they were.
C32_SendReadyPartitions ==
    \A now \in NowArgs, tt \in WallTimes :
        LET eff == IF now = None THEN tt ELSE now
            r == sendReadyMessages(Self, now, tt)
            batch == handedOut(Self, now, tt)
            expired(h) == nextAttempt[h] = None
            ready(h) == nextAttempt[h] # None /\ nextAttempt[h] <= eff
            times(seq, h) == Cardinality({i \in 1..Len(seq) : seq[i] = h})
            onDisk(h) == <<"msg", h>> \in DOMAIN r.q.files
        IN  /\ ~ r.raised
            /\ \A i \in 1..Len(sendable) :
                 LET h == sendable[i]
                 IN  /\ expired(h) =>
                           /\ ~ onDisk(h) /\ h \notin DOMAIN r.q.pending
                           /\ times(r.q.sendable, h) = 0 /\ times(batch, h) = 0
                     /\ ready(h) =>
                           /\ h \in DOMAIN r.q.pending /\ r.q.pending[h] = eff
                           /\ times(r.q.sendable, h) = 0 /\ times(batch, h) = 1
                           /\ onDisk(h)
                           /\ r.q.files[<<"msg", h>>] = files[<<"msg", h>>]
                     /\ ~ expired(h) /\ ~ ready(h) =>
                           /\ h \notin DOMAIN r.q.pending
                           /\ times(r.q.sendable, h) = 1 /\ times(batch, h) = 0
                           /\ onDisk(h)
            /\ \A h \in DOMAIN pending :
                 h \in DOMAIN r.q.pending /\ r.q.pending[h] = pending[h]
            /\ batch = SelectSeq(sendable, ready)
            /\ r.q.sendable =
                 SelectSeq(sendable, LAMBDA h : ~ expired(h) /\ ~ ready(h))

\* one message was handed out with the time of the call and the other,
\* due later, was kept in sendable
C32_Witness ==
    /\ Len(out.batch) = 1
    /\ Len(sendable) = 1
    /\ nextAttempt[sendable[1]] # None
    /\ nextAttempt[sendable[1]] > pending[out.batch[1]]

\* ---------------------------------------------------------------------
\* C33
\* ---------------------------------------------------------------------

\* C33: deliveryFailed(h, retriable) for a pending h, when retriable and
\* when the schedule has a delivery time later than the time the attempt
\* started, sets lastAttempt to that time, moves h from pending to the end
\* of sendable and writes the state to meta_<h>; when there is no such
\* time, and whenever retriable is false, it removes the message.  Called
\* for a handle that is not pending it changes nothing.
C33_FailedDeliveryRequeues ==
    \A h \in Handles, retriable \in BOOLEAN, now \in NowArgs, tt \in WallTimes :
        LET q == deliveryFailed(Self, h, retriable, now, tt)
        IN  IF h \notin DOMAIN pending THEN q = Self
            ELSE LET started == pending[h]
                     queued == deliveryState[h].queuedTime
                     later == {k \in 1..Len(retrySchedule) :
                                 queued + SumTo(retrySchedule, k) > started}
                 IN  IF retriable /\ later # {}
                     THEN /\ q.deliveryState[h] =
                               [queuedTime |-> queued, lastAttempt |-> started]
                          /\ h \notin DOMAIN q.pending
                          /\ q.sendable = Append(sendable, h)
                          /\ q.files[<<"meta", h>>] = <<"V0", queued, started>>
                          /\ q.files[<<"msg", h>>] = files[<<"msg", h>>]
                          /\ \E k \in later :
                               /\ \A j \in later : k <= j
                               /\ q.nextAttempt[h] =
                                    queued + SumTo(retrySchedule, k)
                     ELSE /\ \A n \in DOMAIN q.files :
                               n[2] = h => n[1] \notin {"msg", "meta", "inp"}
                          /\ h \notin DOMAIN q.pending
                          /\ h \notin DOMAIN q.deliveryState
                          /\ h \notin DOMAIN q.nextAttempt
                          /\ \A i \in 1..Len(q.sendable) : q.sendable[i] # h

\* a delivery that started at time 1 failed, was reported later, and the
\* message is sendable again with lastAttempt 1 on disk
C33_Witness ==
    \E h \in DOMAIN deliveryState :
        /\ sendable = <<h>>
        /\ deliveryState[h] = [queuedTime |-> 1, lastAttempt |-> 1]
        /\ <<"meta", h>> \in DOMAIN files
        /\ files[<<"meta", h>>] = <<"V0", 1, 1>>
        /\ nextAttempt[h] = 2

----------------------------------------------------------------------------
(* Stopping the process inside an operation, and the next construction *)

\* what a caller may queue: any object that pickles, a 4-tuple among them
CrashObjects == Objects \cup {"tup4"}

\* the directory when the process stops inside queueDeliveryMessage: the
\* inp_ file is there, or it is renamed to msg_ and meta_ is not written yet
StoppedInQueueDeliveryMessage(q) ==
    IF drawn < Len(HandleNames) /\ HandleNames[drawn + 1] \in openNewFile(q.files)
    THEN UNION {{WriteFile(q.files, <<"inp", HandleNames[drawn + 1]>>, Pickle(msg)),
                 WriteFile(q.files, <<"msg", HandleNames[drawn + 1]>>, Pickle(msg))} :
                msg \in CrashObjects}
    ELSE {}

\* the directory when the process stops inside removeMessage(h): msg_<h> is
\* renamed and meta_<h> is not yet
StoppedInRemoveMessage(q) ==
    {Queue_removeMessage(q, h, FALSE).files : h \in getAllMessages(q)}

\* the directory when the process stops inside removeAll: some of the meta_
\* files are renamed, or all of them and some of the msg_ and inp_ files
StoppedInRemoveAll(q) ==
    LET metas == {n \in DOMAIN q.files : n[1] = "meta"}
        live == {n \in DOMAIN q.files : n[1] \in {"msg", "inp"}}
    IN {Tombstoned(q.files, D, "rmv_meta") : D \in SUBSET metas}
       \cup {Tombstoned(Tombstoned(q.files, metas, "rmv_meta"), D, "rmv") :
                D \in SUBSET live}

\* the directories a stopped process may leave behind
Stopped(q) ==
    {q.files} \cup StoppedInQueueDeliveryMessage(q)
              \cup StoppedInRemoveMessage(q) \cup StoppedInRemoveAll(q)

\* the process stops inside an operation, leaving the directory f, and a
\* new one constructs a DeliveryQueue over it
CrashRestart(f, schedule, now, tt, order) ==
    /\ drawn' = IF f \in StoppedInQueueDeliveryMessage(Self)
                THEN drawn + 1 ELSE drawn
    /\ UNCHANGED <<opened, other, mix, input, lifetime, scrub, lock>>
    /\ LET q == construct(f, renames, schedule, now, tt, order)
       IN Becomes(q, <<>>, ~repOk(q))

CrashNext ==
    \/ \E msg \in CrashObjects, tt \in WallTimes :
          QueueDeliveryMessage(msg, None, tt)
    \/ \E tt \in WallTimes : SendReadyMessages(None, tt)
    \/ \E h \in DOMAIN pending, tt \in WallTimes :
          DeliveryFailed(h, TRUE, None, tt)
    \/ RemoveAll
    \/ \E f \in Stopped(Self), schedule \in Schedules, tt \in WallTimes :
          \E order \in Orders(WithPrefix(f, "msg")) :
              CrashRestart(f, schedule, None, tt, order)

CrashSpec == Init /\ [][CrashNext]_vars

\* what the construction over the directory f promises
RestartPost(f, q, tt) ==
    /\ \A h \in WithPrefix(f, "msg") :
          Exists(q.files, "msg", h) /\ q.files[<<"msg", h>>] = f[<<"msg", h>>]
    /\ repOk(q)
    /\ q.pending = EmptyDict
    /\ Range(q.sendable) = WithPrefix(f, "msg")
    /\ \A h \in WithPrefix(f, "msg") \ WithPrefix(f, "meta") :
          q.deliveryState[h] = [queuedTime |-> tt, lastAttempt |-> None]

\* C34: whatever directory a process stopped inside an operation leaves
\* behind, constructing a DeliveryQueue over it deletes no msg_ file, ends
\* with _repOk true, nothing pending, every msg_ handle sendable, and every
\* message found without metadata queued at the time of the restart with no
\* last attempt
C34_RestartAfterCrash ==
    \A f \in Stopped(Self), schedule \in Schedules, now \in NowArgs,
       tt \in WallTimes :
       \A order \in Orders(WithPrefix(f, "msg")) :
          RestartPost(f, construct(f, renames, schedule, now, tt, order), tt)

\* the same when no queued object is a 4-tuple
C34_RestartAfterCrashOrdinary ==
    \A f \in Stopped(Self), schedule \in Schedules, now \in NowArgs,
       tt \in WallTimes :
       \A order \in Orders(WithPrefix(f, "msg")) :
          (\A h \in WithPrefix(f, "msg") : f[<<"msg", h>>] # Pickle("tup4"))
          => RestartPost(f, construct(f, renames, schedule, now, tt, order), tt)

----------------------------------------------------------------------------
(* One process lifetime with a running clock: how often a message is tried *)

\* the retry schedules of a lifetime: up to MaxLen non-negative intervals,
\* none above 1
RetrySchedules == {<<0>>, <<0, 0>>, <<1, 1>>}

\* the last time at which a message is queued
MaxQueueTime == 1

\* the last time of the clock: no scheduled attempt is later
LastTime == MaxQueueTime + MaxLen

RetryInit ==
    /\ files = EmptyDict
    /\ n_entries = -1
    /\ renames = {}
    /\ retrySchedule \in RetrySchedules
    /\ sendable = <<>>
    /\ pending = EmptyDict
    /\ deliveryState = EmptyDict
    /\ nextAttempt = EmptyDict
    /\ out = NoOut
    /\ drawn = 0
    /\ opened = {}
    /\ other = NoQueue
    /\ mix = NoMix
    /\ input = NoInput
    /\ lifetime = [clock |-> 1, handed |-> [h \in Handles |-> 0]]
    /\ scrub = NoScrub
    /\ lock = NoLock

\* time passes
Tick ==
    /\ lifetime.clock < LastTime
    /\ lifetime' = [lifetime EXCEPT !.clock = @ + 1]
    /\ UNCHANGED <<files, n_entries, renames, retrySchedule, sendable, pending,
                   deliveryState, nextAttempt, out, drawn, opened, other, mix,
                   input, scrub, lock>>

\* queueDeliveryMessage(msg) at the time of the clock
RetryQueueDeliveryMessage(msg) ==
    /\ lifetime.clock <= MaxQueueTime
    /\ QueueDeliveryMessage(msg, None, lifetime.clock)

\* sendReadyMessages(now) at the time of the clock; every handle handed to
\* _deliverMessages is counted (up to one more than any schedule allows)
RetrySendReadyMessages ==
    /\ UNCHANGED <<drawn, opened, other, mix, input, scrub, lock>>
    /\ LET now == lifetime.clock
           r == sendReadyMessages(Self, now, now)
           batch == handedOut(Self, now, now)
       IN /\ Becomes(r.q, batch, r.raised \/ ~repOk(r.q))
          /\ lifetime' = [lifetime EXCEPT !.handed =
                [h \in Handles |->
                    IF h \in Range(batch) /\ @[h] < MaxLen + 2
                    THEN @[h] + 1 ELSE @[h]]]

\* the delivery module answers for the handle h
RetryAnswer(h) ==
    \/ \E retriable \in BOOLEAN : DeliveryFailed(h, retriable, None, lifetime.clock)
    \/ DeliverySucceeded(h)

RetryNext ==
    \/ Tick
    \/ \E msg \in Objects : RetryQueueDeliveryMessage(msg)
    \/ RetrySendReadyMessages
    \/ \E h \in DOMAIN pending : RetryAnswer(h)

\* sendReadyMessages keeps being called while time passes, and every
\* handle handed out is answered
RetrySpec ==
    /\ RetryInit /\ [][RetryNext]_vars
    /\ WF_vars(Tick)
    /\ WF_vars(RetrySendReadyMessages)
    /\ \A h \in Handles : WF_vars(h \in DOMAIN pending /\ RetryAnswer(h))

\* C35: within one process lifetime no message is handed to
\* _deliverMessages more than len(retrySchedule) + 1 times, and when
\* sendReadyMessages keeps being called at growing times and every handle
\* handed out is answered, every queued message is removed in the end
C35_RetriesEnd ==
    /\ [](\A h \in Handles : lifetime.handed[h] <= Len(retrySchedule) + 1)
    /\ \A h \in Handles :
          Exists(files, "msg", h) ~> ~Exists(files, "msg", h)

\* a message went out len(schedule) + 1 times, each attempt failed, and it
\* is gone
C35_Witness ==
    /\ lifetime # NoLifetime
    /\ retrySchedule = <<1, 1>>
    /\ lifetime.handed["a"] = 3
    /\ ~Exists(files, "msg", "a")
    /\ ~Exists(files, "meta", "a")

----------------------------------------------------------------------------
(* cleanQueue step by step, beside the other operations of a Queue.  It    *)
(* takes the lock only inside __changeState; between its steps any other   *)
(* operation may run.                                                      *)

ScrubInit ==
    /\ files = EmptyDict
    /\ n_entries = -1
    /\ renames = {}
    /\ retrySchedule = NoSchedule
    /\ sendable = <<>>
    /\ pending = EmptyDict
    /\ deliveryState = EmptyDict
    /\ nextAttempt = EmptyDict
    /\ out = NoOut
    /\ drawn = 0
    /\ opened = {}
    /\ other = NoQueue
    /\ mix = NoMix
    /\ input = NoInput
    /\ lifetime = NoLifetime
    /\ scrub = [pc |-> "idle", todo |-> {}, rmv |-> {}, m |-> "", young |-> {}]
    /\ lock = NoLock

\* a writer calls openNewMessage; the PRNG produces its next handle
ScrubOpenNewMessage ==
    /\ drawn < Len(HandleNames)
    /\ drawn' = drawn + 1
    /\ opened' = opened \cup {HandleNames[drawn + 1]}
    /\ scrub' = [scrub EXCEPT !.young = @ \cup {HandleNames[drawn + 1]}]
    /\ UNCHANGED <<other, mix, input, lifetime, lock>>
    /\ Returns(openNewMessage(Self, HandleNames[drawn + 1]),
               <<HandleNames[drawn + 1]>>, FALSE)

\* f.write(contents); f.flush() by the writer holding h: the blocks reach
\* the disk and the file's mtime is now
ScrubWriteMessage(h, contents) ==
    /\ h \in opened /\ Exists(files, "inp", h)
    /\ files[<<"inp", h>>] = OpenFile(<<>>, <<>>)
    /\ scrub' = [scrub EXCEPT !.young = @ \cup {h}]
    /\ UNCHANGED <<drawn, opened, other, mix, input, lifetime, lock>>
    /\ Becomes([Self EXCEPT !.files =
                   WriteFile(@, <<"inp", h>>,
                             flush(write(@[<<"inp", h>>], contents),
                                   Len(contents)))],
               <<>>, FALSE)

\* finishMessage by the writer holding h
ScrubFinishMessage(h) ==
    /\ h \in opened
    /\ opened' = opened \ {h}
    /\ UNCHANGED <<drawn, other, mix, input, lifetime, scrub, lock>>
    /\ Becomes(finishMessage(Self, h, FALSE), <<>>, FALSE)

\* Queue.removeMessage(h)
ScrubRemoveMessage(h) ==
    /\ UNCHANGED <<drawn, opened, other, mix, input, lifetime, scrub, lock>>
    /\ Becomes(Queue_removeMessage(Self, h, FALSE), <<>>, FALSE)

\* INPUT_TIMEOUT seconds pass since inp_<h> was last written
GrowOld(h) ==
    /\ h \in scrub.young
    /\ scrub' = [scrub EXCEPT !.young = @ \ {h}]
    /\ UNCHANGED <<files, n_entries, renames, retrySchedule, sendable, pending,
                   deliveryState, nextAttempt, out, drawn, opened, other, mix,
                   input, lifetime, lock>>

\* cleanQueue: os.listdir(self.dir)
CleanQueueList ==
    /\ scrub.pc = "idle"
    /\ scrub' = [scrub EXCEPT !.pc = "loop", !.todo = DOMAIN files, !.rmv = {}]
    /\ UNCHANGED <<files, n_entries, renames, retrySchedule, sendable, pending,
                   deliveryState, nextAttempt, out, drawn, opened, other, mix,
                   input, lifetime, lock>>

\* cleanQueue: one round of the loop for the name n, up to os.stat
CleanQueueVisit(n) ==
    /\ scrub.pc = "loop" /\ n \in scrub.todo
    /\ scrub' =
         IF n[1] \in {"rmv", "rmv_meta"}
         THEN [scrub EXCEPT !.todo = @ \ {n}, !.rmv = @ \cup {n}]
         ELSE IF n[1] = "inp" /\ n \in DOMAIN files /\ n[2] \notin scrub.young
         THEN [scrub EXCEPT !.todo = @ \ {n}, !.pc = "stale", !.m = n[2]]
         ELSE [scrub EXCEPT !.todo = @ \ {n}]
    /\ UNCHANGED <<files, n_entries, renames, retrySchedule, sendable, pending,
                   deliveryState, nextAttempt, out, drawn, opened, other, mix,
                   input, lifetime, lock>>

\* cleanQueue: __changeState(m[4:], "inp", "rmv") for the file os.stat
\* found timed out, and rmv.append(os.path.join(self.dir, m))
CleanQueueRename ==
    /\ scrub.pc = "stale"
    /\ scrub' = [scrub EXCEPT !.pc = "loop", !.rmv = @ \cup {<<"inp", scrub.m>>}]
    /\ UNCHANGED <<drawn, opened, other, mix, input, lifetime, lock>>
    /\ Becomes(changeState(Self, scrub.m, "inp", "rmv", FALSE), <<>>, FALSE)

\* cleanQueue: secureDelete(rmv) after the loop
CleanQueueDelete ==
    /\ scrub.pc = "loop" /\ scrub.todo = {}
    /\ scrub' = [scrub EXCEPT !.pc = "idle", !.rmv = {}]
    /\ UNCHANGED <<drawn, opened, other, mix, input, lifetime, lock>>
    /\ Becomes([Self EXCEPT !.files = Unlink(@, scrub.rmv)], <<>>, FALSE)

ScrubNext ==
    \/ ScrubOpenNewMessage
    \/ \E h \in Handles, c \in Contents : ScrubWriteMessage(h, c)
    \/ \E h \in Handles : ScrubFinishMessage(h)
    \/ \E h \in WithPrefix(files, "msg") : ScrubRemoveMessage(h)
    \/ \E h \in Handles : GrowOld(h)
    \/ CleanQueueList
    \/ \E n \in scrub.todo : CleanQueueVisit(n)
    \/ CleanQueueRename
    \/ CleanQueueDelete

ScrubSpec == ScrubInit /\ [][ScrubNext]_vars

\* a step of cleanQueue
CleanQueueStep == scrub'.pc # scrub.pc \/ scrub'.todo # scrub.todo

\* C36: no step of cleanQueue, wherever the other operations come between
\* its steps, takes away (deletes or renames) a msg_ file, a meta_ file or
\* an inp_ file written less than INPUT_TIMEOUT seconds ago
C36_ScrubSparesLiveFiles ==
    [][CleanQueueStep =>
         \A n \in DOMAIN files :
            (n[1] \in {"msg", "meta"} \/ (n[1] = "inp" /\ n[2] \in scrub.young))
            => n \in DOMAIN files']_vars

\* the same for msg_ and meta_ files alone
C36_ScrubSparesMessages ==
    [][CleanQueueStep =>
         \A n \in DOMAIN files :
            n[1] \in {"msg", "meta"} => n \in DOMAIN files']_vars

----------------------------------------------------------------------------
(* removeAll *)

\* C37: after removeAll the directory has no inp_, msg_ or meta_ file,
\* count() is 0, sendable, pending, deliveryState and nextAttempt are empty,
\* and a later deliverySucceeded or deliveryFailed for a handle that was
\* pending changes nothing
C37_RemoveAllEmpties ==
    LET q == removeAll(Self)
    IN /\ \A n \in DOMAIN q.files : n[1] \notin {"inp", "msg", "meta"}
       /\ count(q) = 0
       /\ q.sendable = <<>>
       /\ q.pending = EmptyDict
       /\ q.deliveryState = EmptyDict
       /\ q.nextAttempt = EmptyDict
       /\ \A h \in DOMAIN pending :
             /\ removeMessage(q, h) = q
             /\ \A retriable \in BOOLEAN, now \in NowArgs, tt \in WallTimes :
                   deliveryFailed(q, h, retriable, now, tt) = q

\* removeAll has emptied a directory that held an inp_ file, a msg_ file
\* and a meta_ file, with a delivery pending
C37_Witness ==
    /\ {<<"inp", "rmv">>, <<"msg", "rmv">>} \subseteq renames
    /\ DOMAIN files = {}
    /\ n_entries = 0
    /\ sendable = <<>> /\ pending = EmptyDict
    /\ deliveryState = EmptyDict /\ nextAttempt = EmptyDict

----------------------------------------------------------------------------
(* Threads and the queue's RLock.  Every operation of a DeliveryQueue      *)
(* acquires self._lock, acts, and releases it; sendReadyMessages goes on   *)
(* to _repOk and _deliverMessages after its locked section.                *)

Threads == {"t1", "t2"}

\* the operations a thread may start
LockedOps == {"queueDeliveryMessage", "deliverySucceeded", "deliveryFailed",
              "sendReadyMessages"}

LockInit ==
    /\ files = EmptyDict
    /\ n_entries = -1
    /\ renames = {}
    /\ retrySchedule \in Schedules
    /\ sendable = <<>>
    /\ pending = EmptyDict
    /\ deliveryState = EmptyDict
    /\ nextAttempt = EmptyDict
    /\ out = NoOut
    /\ drawn = 0
    /\ opened = {}
    /\ other = NoQueue
    /\ mix = NoMix
    /\ input = NoInput
    /\ lifetime = NoLifetime
    /\ scrub = NoScrub
    /\ lock = [owner |-> "", pc |-> [t \in Threads |-> "idle"],
               meanwhile |-> [t \in Threads |-> {}]]

\* a sendReadyMessages that keeps the lock over its call of _deliverMessages
ownerAfterSendReady_held(t) == t

\* the holder of the lock when sendReadyMessages leaves its try block: the
\* finally clause has released it
ownerAfterSendReady(t) == ""

\* the thread t has completed the operation op: the threads that are inside
\* _deliverMessages meanwhile take note
Completed(l, t, op) ==
    [l EXCEPT !.owner = "", !.pc[t] = "idle",
              !.meanwhile = [u \in Threads |->
                  IF u # t /\ l.pc[u] = "deliver" THEN @[u] \cup {op} ELSE @[u]]]

\* self._lock.acquire() at the start of the operation op
Acquire(t, op) ==
    /\ lock.pc[t] = "idle" /\ lock.owner = ""
    /\ op = "queueDeliveryMessage" => drawn < Len(HandleNames)
    /\ op \in {"deliverySucceeded", "deliveryFailed"} => DOMAIN pending # {}
    /\ lock' = [lock EXCEPT !.owner = t, !.pc[t] = op]
    /\ UNCHANGED <<files, n_entries, renames, retrySchedule, sendable, pending,
                   deliveryState, nextAttempt, out, drawn, opened, other, mix,
                   input, lifetime, scrub>>

\* the locked section of queueDeliveryMessage, and the release
LockedQueueDeliveryMessage(t, msg, tt) ==
    /\ lock.pc[t] = "queueDeliveryMessage" /\ lock.owner = t
    /\ drawn' = drawn + 1
    /\ lock' = Completed(lock, t, "queueDeliveryMessage")
    /\ UNCHANGED <<opened, other, mix, input, lifetime, scrub>>
    /\ LET q == queueDeliveryMessage(Self, HandleNames[drawn + 1], msg, None, tt)
       IN Becomes(q, <<>>, ~repOk(q))

\* the locked section of deliverySucceeded (removeMessage), and the release
LockedDeliverySucceeded(t, h) ==
    /\ lock.pc[t] = "deliverySucceeded" /\ lock.owner = t
    /\ lock' = Completed(lock, t, "deliverySucceeded")
    /\ UNCHANGED <<drawn, opened, other, mix, input, lifetime, scrub>>
    /\ Becomes(removeMessage(Self, h), <<>>, FALSE)

\* the locked section of deliveryFailed, and the release
LockedDeliveryFailed(t, h, retriable, tt) ==
    /\ lock.pc[t] = "deliveryFailed" /\ lock.owner = t
    /\ lock' = Completed(lock, t, "deliveryFailed")
    /\ UNCHANGED <<drawn, opened, other, mix, input, lifetime, scrub>>
    /\ Becomes(deliveryFailed(Self, h, retriable, None, tt), <<>>, FALSE)

\* the locked section of sendReadyMessages; the thread goes on to _repOk
LockedSendReadyMessages(t, tt) ==
    /\ lock.pc[t] = "sendReadyMessages" /\ lock.owner = t
    /\ UNCHANGED <<drawn, opened, other, mix, input, lifetime, scrub>>
    /\ LET r == sendReadyMessages(Self, None, tt)
       IN /\ Becomes(r.q, r.messages, r.raised)
          /\ lock' = [lock EXCEPT !.owner = ownerAfterSendReady(t),
                                  !.pc[t] = IF r.messages = <<>> THEN "repOk"
                                            ELSE "repOk, deliver",
                                  !.meanwhile[t] = {}]

\* self._repOk(), which takes the lock (an RLock: its holder may take it
\* again) and releases it; then _deliverMessages is entered, or
\* sendReadyMessages returns
LockedRepOk(t) ==
    /\ lock.pc[t] \in {"repOk", "repOk, deliver"} /\ lock.owner \in {"", t}
    /\ lock' = IF lock.pc[t] = "repOk"
               THEN Completed(lock, t, "sendReadyMessages")
               ELSE [lock EXCEPT !.pc[t] = "deliver"]
    /\ UNCHANGED <<files, n_entries, renames, retrySchedule, sendable, pending,
                   deliveryState, nextAttempt, out, drawn, opened, other, mix,
                   input, lifetime, scrub>>

\* _deliverMessages returns; the _repOk that follows is the last step
DeliverMessagesReturns(t) ==
    /\ lock.pc[t] = "deliver"
    /\ lock' = [lock EXCEPT !.pc[t] = "repOk", !.meanwhile[t] = {}]
    /\ UNCHANGED <<files, n_entries, renames, retrySchedule, sendable, pending,
                   deliveryState, nextAttempt, out, drawn, opened, other, mix,
                   input, lifetime, scrub>>

LockNext ==
    \/ \E t \in Threads, op \in LockedOps : Acquire(t, op)
    \/ \E t \in Threads, msg \in Objects, tt \in WallTimes :
          LockedQueueDeliveryMessage(t, msg, tt)
    \/ \E t \in Threads, h \in DOMAIN pending : LockedDeliverySucceeded(t, h)
    \/ \E t \in Threads, h \in DOMAIN pending, retriable \in BOOLEAN,
          tt \in WallTimes : LockedDeliveryFailed(t, h, retriable, tt)
    \/ \E t \in Threads, tt \in WallTimes : LockedSendReadyMessages(t, tt)
    \/ \E t \in Threads : LockedRepOk(t)
    \/ \E t \in Threads : DeliverMessagesReturns(t)

LockSpec == LockInit /\ [][LockNext]_vars

\* C38: a thread inside _deliverMessages does not hold the queue lock, so
\* that whenever no other operation holds it either, every other thread
\* that is idle can start, and so complete, any operation
C38_DeliversUnlocked ==
    \A t \in Threads :
       lock.pc[t] = "deliver" =>
          /\ lock.owner # t
          /\ lock.owner = "" =>
                \A u \in Threads : lock.pc[u] = "idle" =>
                   ENABLED Acquire(u, "sendReadyMessages")

\* while t1 is inside one call of _deliverMessages, t2 has completed
\* queueDeliveryMessage, sendReadyMessages, deliverySucceeded and
\* deliveryFailed
C38_Witness ==
    /\ lock # NoLock
    /\ lock.pc["t1"] = "deliver"
    /\ lock.meanwhile["t1"] = LockedOps

\* ---------------------------------------------------------------------
\* C39
\* ---------------------------------------------------------------------

\* the conditions on the Server section of the descriptor d at time now
ServerSectionIsSound(d, now) ==
    LET server == d.sections["Server"]
        digest == getServerInfoDigest(d.contents)
    IN  /\ server["Descriptor-Version"] = "0.2"
        /\ digest = server["Digest"]
        /\ digest = pk_check_signature(server["Signature"], server["Identity"].key)
        /\ server["Identity"].modulus_bytes \in 256..512
        /\ server["Packet-Key"].modulus_bytes = 256
        /\ server["Valid-Until"] > server["Valid-After"]
        /\ server["Published"] <= now + 600
        /\ server["Contact"] <= 256
        /\ server["Comments"] <= 1024
        /\ server["Contact-Fingerprint"] <= 128

\* C39: a descriptor parsed with assumeValid false and no validated digest
\* is marked validated only if its version is 0.2, its digest is the one
\* declared and the one signed under Identity, the identity modulus has 256
\* to 512 bytes and the packet key 256, Valid-Until is after Valid-After,
\* Published is at most now + 600, and Contact, Comments and
\* Contact-Fingerprint are within 256, 1024 and 128 characters; when one of
\* these fails ConfigError is raised and nothing is marked validated
C39_ValidatedOnlyIfSound ==
    \A now \in {0, 1} :
       LET r == ServerInfo(input.self, FALSE, {}, now)
           pre == prevalidate(input.self)
       IN  /\ (r.error = "" /\ r._isValidated = 1)
                 => ServerSectionIsSound(input.self, now)
           /\ ~ServerSectionIsSound(input.self, now)
                 => /\ r.error = "ConfigError"
                    /\ pre.error = "" => validate(pre.d, {}, now)._isValidated = 0

\* a descriptor at the limits (identity key of 512 bytes, published 600 s
\* ahead of the clock) has been validated in full
C39_Witness ==
    /\ input.self.sections["Server"]["Identity"].modulus_bytes = MAX_IDENTITY_BYTES
    /\ input.self.sections["Server"]["Published"] = 601
    /\ LET r == ServerInfo(input.self, FALSE, {}, 1)
       IN  r.error = "" /\ r._isValidated = 1 /\ out.ret = <<r>>

----------------------------------------------------------------------------
\* C40: BinomialCottrellMixPool.getBatch returns the empty list when the
\* Cottrell batch size n is 0 or the pool is empty; otherwise it returns a
\* list without duplicates of msg_ handles, a handle being in it exactly
\* when its own draw is below n / P, so that with 0 < n < P every subset of
\* the pool is the batch for some draws
C40_BinomialBatch ==
    LET n == getBatchSize(Self, mix)
        P == count(Self)
        H == getAllMessages(Self)
    IN  /\ \A draw \in Draws(H), k \in 0..MaxShift :
              LET b == binomialGetBatch(Self, mix, draw, k)
              IN  /\ (n = 0 \/ P = 0) => b = <<>>
                  /\ Cardinality(Range(b)) = Len(b)
                  /\ Range(b) \subseteq H
                  /\ (n # 0 /\ P # 0) =>
                        Range(b) = {h \in H : draw[h] * P < n * Resolution}
        /\ (0 < n /\ n < P) =>
              \A S \in SUBSET H :
                 LET draw == [h \in H |-> IF h \in S THEN 0 ELSE Resolution - 1]
                 IN  draw \in Draws(H)
                     /\ Range(binomialGetBatch(Self, mix, draw, 0)) = S

\* from a pool of two with a Cottrell batch size of one, the binomial
\* selection has sent both messages
C40_Witness ==
    /\ mix # NoMix
    /\ count(Self) = 2
    /\ getBatchSize(Self, mix) = 1
    /\ Len(out.ret) = 2
    /\ Range(out.ret) = getAllMessages(Self)
====
